---- MODULE Spec2Model ----
(***************************************************************************)
(* Model of the wargame2d simulation engine: GridCombatEnv.reset/step, the *)
(* movement and combat resolvers, the sensor system and the victory check, *)
(* operating on one WorldState record.                                     *)
(*                                                                         *)
(* Numbers: probabilities are integers in tenths (8 stands for 0.8), a     *)
(* roll is r/RngMod for the generator's output r, ranges are whole cells   *)
(* and distances are compared by their squares, so that every comparison   *)
(* the code makes on floats is made exactly on integers.                   *)
(***************************************************************************)
EXTENDS Integers, Sequences, FiniteSets, TLC

\* ------------------------------------------------------------------------
\* Bounds of the exploration
\* ------------------------------------------------------------------------
\* step() calls explored per episode
MaxSteps == 3
\* entries of one action map (entities without an entry are inert)
MaxActors == 2

\* ------------------------------------------------------------------------
\* Core types (env/core/types.py)
\* ------------------------------------------------------------------------
TeamSet == {"BLUE", "RED"}

OtherTeam(t) == IF t = "BLUE" THEN "RED" ELSE "BLUE"

\* Optional values: a missing winner / reason, a None seed, a None max_turns
NoTeam == "None"

NoSeed == -1

NoMaxTurns == -1

\* MoveDir.delta
Delta(dir) ==
    CASE dir = "UP" -> <<0, 1>>
      [] dir = "DOWN" -> <<0, -1>>
      [] dir = "LEFT" -> <<-1, 0>>
      [] dir = "RIGHT" -> <<1, 0>>
      [] OTHER -> <<0, 0>>

\* ------------------------------------------------------------------------
\* Grid
\* ------------------------------------------------------------------------
\* Grid.in_bounds
InBounds(grid, pos) ==
    /\ 0 <= pos[1] /\ pos[1] < grid.width
    /\ 0 <= pos[2] /\ pos[2] < grid.height

\* Grid.distance, squared: the code compares the Euclidean distance with a
\* range, which is the comparison of the squares
Dist2(a, b) == (a[1] - b[1]) * (a[1] - b[1]) + (a[2] - b[2]) * (a[2] - b[2])

\* distance <= range, for a range >= 0
WithinRange(a, b, range) == Dist2(a, b) <= range * range

\* ------------------------------------------------------------------------
\* The seeded generator of the world (random.Random(seed))
\* ------------------------------------------------------------------------
RngStates == 0 .. 7

RngMod == Cardinality(RngStates)

\* one draw advances the generator's state
RngNext(s) == (5 * s + 3) % RngMod

\* random.Random(seed): the seed fixes the state; a None seed takes the
\* state from the operating system's entropy
SeedRng(seed, entropy) == IF seed = NoSeed THEN entropy ELSE seed % RngMod

\* random.shuffle: for i in reversed(range(1, len(x))): j = randbelow(i + 1);
\* x[i], x[j] = x[j], x[i].  i is the 1-based index of the slot being filled.
Shuffle(rng, seq) ==
    LET \* Random._randbelow(n) read from the state after the draw
        RandBelow(s, n) == (s * n) \div RngMod
        RECURSIVE ShuffleFrom(_, _, _)
        ShuffleFrom(state, x, i) ==
            IF i <= 1 THEN [rng |-> state, seq |-> x]
            ELSE LET Swap(s, j) ==
                         ShuffleFrom(s, [x EXCEPT ![i] = x[j], ![j] = x[i]], i - 1)
                     Draw(s) == Swap(s, RandBelow(s, i) + 1)
                 IN Draw(RngNext(state))
    IN ShuffleFrom(rng, seq, Len(seq))

\* ------------------------------------------------------------------------
\* Entities
\* ------------------------------------------------------------------------
\* Entity.__post_init__ / Aircraft.__post_init__: the parameters a
\* constructor accepts
ValidEntityParams(e) ==
    /\ e.radar_range >= 0
    /\ (e.kind \in {"aircraft", "sam"}) =>
          /\ e.missiles >= 0
          /\ e.missile_max_range > 0
          /\ 0 <= e.base_hit_prob /\ e.base_hit_prob <= 10
          /\ 0 <= e.min_hit_prob /\ e.min_hit_prob <= 10

Unarmed(kind, team, pos, radar) ==
    [kind |-> kind, team |-> team, pos |-> pos, alive |-> TRUE,
     can_move |-> TRUE, can_shoot |-> FALSE, radar_range |-> radar,
     missiles |-> 0, missile_max_range |-> 0, base_hit_prob |-> 0,
     min_hit_prob |-> 0, on |-> TRUE, cooldown |-> 0, cooldown_steps |-> 0]

AWACS(team, pos, radar) == Unarmed("awacs", team, pos, radar)

Decoy(team, pos) == Unarmed("decoy", team, pos, 0)

Aircraft(team, pos, radar, missiles, range, base, minp) ==
    [kind |-> "aircraft", team |-> team, pos |-> pos, alive |-> TRUE,
     can_move |-> TRUE, can_shoot |-> TRUE, radar_range |-> radar,
     missiles |-> missiles, missile_max_range |-> range, base_hit_prob |-> base,
     min_hit_prob |-> minp, on |-> TRUE, cooldown |-> 0, cooldown_steps |-> 0]

SAM(team, pos, radar, missiles, range, base, minp, steps, on) ==
    [kind |-> "sam", team |-> team, pos |-> pos, alive |-> TRUE,
     can_move |-> FALSE, can_shoot |-> TRUE, radar_range |-> radar,
     missiles |-> missiles, missile_max_range |-> range, base_hit_prob |-> base,
     min_hit_prob |-> minp, on |-> on, cooldown |-> 0, cooldown_steps |-> steps]

\* ------------------------------------------------------------------------
\* Entity serialization.  The object that is serialized is an entity with
\* its id and its name; the dict has the keys that to_dict writes and
\* from_dict rebuilds the entity through the constructor of its class.
\* ------------------------------------------------------------------------
EntityObject(i, name, e) == [id |-> i, name |-> name, entity |-> e]

\* self.__class__.__name__
ClassName(e) ==
    CASE e.kind = "aircraft" -> "Aircraft"
      [] e.kind = "awacs" -> "AWACS"
      [] e.kind = "sam" -> "SAM"
      [] e.kind = "decoy" -> "Decoy"

\* Entity._get_entity_class
EntityClasses == {"Aircraft", "AWACS", "SAM", "Decoy"}

\* Entity.to_dict
BaseToDict(o) ==
    [type |-> ClassName(o.entity), id |-> o.id, team |-> o.entity.team,
     pos |-> o.entity.pos, kind |-> o.entity.kind, name |-> o.name,
     alive |-> o.entity.alive, radar_range |-> o.entity.radar_range,
     can_move |-> o.entity.can_move, can_shoot |-> o.entity.can_shoot]

\* to_dict of the entity's class: Aircraft and SAM add their stats
EntityToDict(o) ==
    CASE o.entity.kind = "aircraft" ->
            BaseToDict(o) @@
            [missiles |-> o.entity.missiles,
             missile_max_range |-> o.entity.missile_max_range,
             base_hit_prob |-> o.entity.base_hit_prob,
             min_hit_prob |-> o.entity.min_hit_prob]
      [] o.entity.kind = "sam" ->
            BaseToDict(o) @@
            [missiles |-> o.entity.missiles,
             missile_max_range |-> o.entity.missile_max_range,
             base_hit_prob |-> o.entity.base_hit_prob,
             min_hit_prob |-> o.entity.min_hit_prob,
             on |-> o.entity.on, cooldown |-> o.entity.cooldown,
             cooldown_steps |-> o.entity.cooldown_steps]
      [] OTHER -> BaseToDict(o)

\* _from_dict_impl of the class named by the dict: a call of the constructor
FromDictImpl(data) ==
    CASE data.type = "Aircraft" ->
            Aircraft(data.team, data.pos, data.radar_range, data.missiles,
                     data.missile_max_range, data.base_hit_prob, data.min_hit_prob)
      [] data.type = "SAM" ->
            [SAM(data.team, data.pos, data.radar_range, data.missiles,
                 data.missile_max_range, data.base_hit_prob, data.min_hit_prob,
                 data.cooldown_steps, data.on)
             EXCEPT !.cooldown = data.cooldown]
      [] data.type = "AWACS" -> AWACS(data.team, data.pos, data.radar_range)
      [] data.type = "Decoy" -> Decoy(data.team, data.pos)

NoObject == [none |-> TRUE]

\* The mutant of from_dict that keeps the constructor's alive flag
EntityFromDictAlive(data) ==
    IF data.type \notin EntityClasses \/ ~ValidEntityParams(FromDictImpl(data))
    THEN [raised |-> "ValueError", object |-> NoObject]
    ELSE [raised |-> "None",
          object |-> EntityObject(data.id, data.name, FromDictImpl(data))]

\* Entity.from_dict: the class of the type tag builds the entity, then the
\* id and the alive flag are restored
EntityFromDict(data) ==
    IF data.type \notin EntityClasses \/ ~ValidEntityParams(FromDictImpl(data))
    THEN [raised |-> "ValueError", object |-> NoObject]
    ELSE [raised |-> "None",
          object |-> EntityObject(data.id, data.name,
                                  [FromDictImpl(data) EXCEPT !.alive = data.alive])]

\* hasattr(entity, 'missiles')
HasMissiles(e) == e.kind \in {"aircraft", "sam"}

\* Entity.get_active_radar_range, overridden by SAM
ActiveRadarRange(e) ==
    IF e.kind = "sam" /\ ~e.on THEN 0 ELSE e.radar_range

\* SAM.tick_cooldown
TickCooldown(e) ==
    IF e.cooldown > 0 THEN [e EXCEPT !.cooldown = e.cooldown - 1] ELSE e

\* SAM.start_cooldown
StartCooldown(e) == [e EXCEPT !.cooldown = e.cooldown_steps]

\* ------------------------------------------------------------------------
\* Actions (env/core/actions.py).  wf records whether the parameter has the
\* type its action needs: a MoveDir for MOVE, an int for SHOOT, a bool for
\* TOGGLE.
\* ------------------------------------------------------------------------
NoAction == [type |-> "NONE", dir |-> "UP", target_id |-> 0, on |-> FALSE, wf |-> TRUE]

\* ActionValidation.success / ActionValidation.fail
Valid == [valid |-> TRUE, code |-> "OK"]

Fail(code) == [valid |-> FALSE, code |-> code]

\* The mutant of _validate_move that does not look at can_move
ValidateMoveAny(e, action) ==
    IF ~action.wf THEN Fail("INVALID_DIRECTION") ELSE Valid

\* Entity._validate_move
ValidateMove(e, action) ==
    IF ~e.can_move THEN Fail("NO_CAPABILITY")
    ELSE IF ~action.wf THEN Fail("INVALID_DIRECTION")
    ELSE Valid

\* The mutant of _validate_shoot that forgets the ammunition check
ValidateShootNoAmmoCheck(e, action) ==
    IF ~e.can_shoot THEN Fail("NO_CAPABILITY")
    ELSE IF ~HasMissiles(e) THEN Fail("NO_CAPABILITY")
    ELSE IF ~action.wf THEN Fail("INVALID_TARGET")
    ELSE Valid

\* Entity._validate_shoot
ValidateShoot(e, action) ==
    IF ~e.can_shoot THEN Fail("NO_CAPABILITY")
    ELSE IF ~HasMissiles(e) THEN Fail("NO_CAPABILITY")
    ELSE IF e.missiles <= 0 THEN Fail("NO_MISSILES")
    ELSE IF ~action.wf THEN Fail("INVALID_TARGET")
    ELSE Valid

\* SAM._validate_shoot: the base checks, then radar on and cooldown over
ValidateShootSAM(e, action) ==
    LET base == ValidateShoot(e, action)
    IN IF ~base.valid THEN base
       ELSE IF ~e.on THEN Fail("SAM_OFF")
       ELSE IF e.cooldown > 0 THEN Fail("SAM_COOLDOWN")
       ELSE Valid

\* The mutant of _validate_toggle that does not look at the parameter's type
ValidateToggleUntyped(e, action) ==
    IF e.kind # "sam" THEN Fail("NOT_SAM") ELSE Valid

\* Entity._validate_toggle
ValidateToggle(e, action) ==
    IF e.kind # "sam" THEN Fail("NOT_SAM")
    ELSE IF ~action.wf THEN Fail("INVALID_TOGGLE")
    ELSE Valid

\* Entity.validate_action
ValidateAction(e, action) ==
    IF ~e.alive THEN Fail("ENTITY_DEAD")
    ELSE CASE action.type = "WAIT" -> Valid
           [] action.type = "MOVE" -> ValidateMove(e, action)
           [] action.type = "SHOOT" ->
                IF e.kind = "sam" THEN ValidateShootSAM(e, action)
                ELSE ValidateShoot(e, action)
           [] action.type = "TOGGLE" -> ValidateToggle(e, action)
           [] OTHER -> Fail("UNKNOWN_ACTION")

\* ------------------------------------------------------------------------
\* World state
\* ------------------------------------------------------------------------
\* WorldState.get_all_entities: ids in insertion order
AllIds(w) == 1 .. Len(w.entities)

\* WorldState.get_alive_entities, as the sequence of ids in insertion order
AliveIds(w) ==
    LET RECURSIVE AliveFrom(_)
        AliveFrom(i) ==
            IF i > Len(w.entities) THEN <<>>
            ELSE (IF w.entities[i].alive THEN <<i>> ELSE <<>>) \o AliveFrom(i + 1)
    IN AliveFrom(1)

\* WorldState.get_entity: whether the id names an entity
HasEntity(w, id) == id \in AllIds(w)

\* ------------------------------------------------------------------------
\* Team views and observations
\* ------------------------------------------------------------------------
EmptyView == [friendly_ids |-> {}, observations |-> <<>>, enemy_fired |-> {}]

\* The mutant of TeamView.reset that clears the fired history too
ResetViewAll(view) == EmptyView

\* TeamView.reset: visibility is cleared, the fired history is kept
ResetView(view) == [view EXCEPT !.friendly_ids = {}, !.observations = <<>>]

\* TeamView.record_enemy_fired
RecordEnemyFired(view, id) == [view EXCEPT !.enemy_fired = @ \cup {id}]

\* TeamView.get_enemy_ids(team)
EnemyIds(view, team) ==
    {i \in DOMAIN view.observations : view.observations[i].team # team}

Observation(id, kind, team, pos, seen_by) ==
    [entity_id |-> id, kind |-> kind, team |-> team, position |-> pos,
     seen_by |-> seen_by]

\* ------------------------------------------------------------------------
\* Sensor system (env/mechanics/sensors.py)
\* ------------------------------------------------------------------------
\* The mutant of _is_sam_invisible that never hides a SAM
IsSamInvisibleNever(e) == FALSE

\* SensorSystem._is_sam_invisible
IsSamInvisible(e) == IF e.kind # "sam" THEN FALSE ELSE ~e.on

\* The mutant of _get_apparent_kind that reports the true kind
GetApparentKindTrue(target, observer) == target.kind

\* SensorSystem._get_apparent_kind
GetApparentKind(target, observer) ==
    IF target.team = observer.team THEN target.kind
    ELSE IF target.kind = "decoy" THEN "aircraft"
    ELSE target.kind

\* The mutant of compute_entity_observations that does not skip dead targets
ObservesDead(w, o, t) ==
    LET observer == w.entities[o]
        target == w.entities[t]
    IN /\ observer.alive
       /\ ActiveRadarRange(observer) > 0
       /\ t # o
       /\ ~IsSamInvisible(target)
       /\ WithinRange(observer.pos, target.pos, ActiveRadarRange(observer))

\* SensorSystem.compute_entity_observations: whether observer o emits an
\* observation of target t
Observes(w, o, t) ==
    LET observer == w.entities[o]
        target == w.entities[t]
    IN /\ observer.alive
       /\ ActiveRadarRange(observer) > 0
       /\ t # o
       /\ target.alive
       /\ ~IsSamInvisible(target)
       /\ WithinRange(observer.pos, target.pos, ActiveRadarRange(observer))

\* The mutant of the merge into the team view that keeps the first observer
\* only
ObserversOfFirst(w, team, t) ==
    LET all == {o \in AllIds(w) : w.entities[o].team = team /\ Observes(w, o, t)}
    IN IF all = {} THEN {} ELSE {CHOOSE o \in all : \A p \in all : o <= p}

\* The entities of a team whose observations of t are merged into its view
ObserversOf(w, team, t) ==
    {o \in AllIds(w) : w.entities[o].team = team /\ Observes(w, o, t)}

\* refresh_all_observations, step 2: register the friendly ids
FriendlyIds(w, team) ==
    {i \in AllIds(w) : w.entities[i].alive /\ w.entities[i].team = team}

Lowest(ids) == CHOOSE i \in ids : \A j \in ids : i <= j

\* refresh_all_observations, steps 3 and 4, with ObservationSet.add: one
\* observation per observed entity; its kind is that of the first one added
\* (the lowest observer in alive order, else the self-observation) and its
\* seen_by is the union of all that were added
ObservationOf(w, team, t) ==
    LET target == w.entities[t]
        observers == ObserversOf(w, team, t)
        kind == IF observers # {}
                THEN GetApparentKind(target, w.entities[Lowest(observers)])
                ELSE target.kind
        own == IF target.alive /\ target.team = team THEN {t} ELSE {}
    IN Observation(t, kind, target.team, target.pos, observers \cup own)

\* The view of one team after a refresh
RefreshView(w, team) ==
    LET friendly == FriendlyIds(w, team)
        observed == {t \in AllIds(w) : ObserversOf(w, team, t) # {}} \cup friendly
    IN [ResetView(w.team_views[team]) EXCEPT
            !.friendly_ids = friendly,
            !.observations = [t \in observed |-> ObservationOf(w, team, t)]]

\* SensorSystem.refresh_all_observations
RefreshAllObservations(w) ==
    [w EXCEPT !.team_views = [team \in TeamSet |-> RefreshView(w, team)]]

\* ------------------------------------------------------------------------
\* Team intel (agents/team_intel.py)
\* ------------------------------------------------------------------------
\* The ids of a set in ascending order
RECURSIVE Ascending(_)
Ascending(ids) ==
    IF ids = {} THEN <<>> ELSE <<Lowest(ids)>> \o Ascending(ids \ {Lowest(ids)})

\* VisibleEnemy built from an observation of a team view; the flag
\* has_fired_before is the view's record of the enemy having fired
VisibleEnemy(view, obs) ==
    [id |-> obs.entity_id, team |-> obs.team, position |-> obs.position,
     kind |-> obs.kind, has_fired_before |-> obs.entity_id \in view.enemy_fired,
     seen_by |-> obs.seen_by]

\* The mutant of TeamIntel.build that lists every alive enemy of the world
TeamIntelBuildOmniscient(w, team) ==
    LET view == w.team_views[team]
        enemies == {i \in AllIds(w) : w.entities[i].alive /\ w.entities[i].team # team}
    IN [grid |-> w.grid,
        friendlies |-> [k \in DOMAIN Ascending({i \in AllIds(w) : w.entities[i].team = team})
                          |-> w.entities[Ascending({i \in AllIds(w) : w.entities[i].team = team})[k]]],
        visible_enemies |->
            [k \in DOMAIN Ascending(enemies) |->
                VisibleEnemy(view, Observation(Ascending(enemies)[k],
                                               w.entities[Ascending(enemies)[k]].kind,
                                               w.entities[Ascending(enemies)[k]].team,
                                               w.entities[Ascending(enemies)[k]].pos, {}))],
        friendly_ids |-> view.friendly_ids,
        visible_enemy_ids |-> EnemyIds(view, team)]

\* TeamIntel.build: the team's own entities in full, dead ones included, and
\* one snapshot for each enemy observation of the team's view
TeamIntelBuild(w, team) ==
    LET view == w.team_views[team]
    IN [grid |-> w.grid,
        friendlies |-> [k \in DOMAIN Ascending({i \in AllIds(w) : w.entities[i].team = team})
                          |-> w.entities[Ascending({i \in AllIds(w) : w.entities[i].team = team})[k]]],
        visible_enemies |->
            [k \in DOMAIN Ascending(EnemyIds(view, team)) |->
                VisibleEnemy(view, view.observations[Ascending(EnemyIds(view, team))[k]])],
        friendly_ids |-> view.friendly_ids,
        visible_enemy_ids |-> EnemyIds(view, team)]

\* ------------------------------------------------------------------------
\* Shared validation (env/core/validation.py)
\* ------------------------------------------------------------------------
\* WorldState.is_position_occupied by an alive entity other than the mover
Occupied(w, pos, mover) ==
    \E j \in AllIds(w) : j # mover /\ w.entities[j].alive /\ w.entities[j].pos = pos

Destination(e, action) ==
    <<e.pos[1] + Delta(action.dir)[1], e.pos[2] + Delta(action.dir)[2]>>

\* The mutant of Aircraft.get_allowed_actions that offers every alive enemy
\* in range as a target, visible or not
GetAllowedActionsUnseen(w, i) ==
    LET e == w.entities[i]
        dirs == SelectSeq(<<"UP", "DOWN", "LEFT", "RIGHT">>,
                          LAMBDA d : InBounds(w.grid, Destination(e, [dir |-> d])))
        targets == Ascending({t \in AllIds(w) :
                                 /\ w.entities[t].team # e.team
                                 /\ w.entities[t].alive
                                 /\ WithinRange(e.pos, w.entities[t].pos,
                                                e.missile_max_range)})
    IN IF ~e.alive THEN <<>>
       ELSE <<[NoAction EXCEPT !.type = "WAIT"]>>
            \o (IF e.can_move
                THEN [k \in DOMAIN dirs |->
                         [NoAction EXCEPT !.type = "MOVE", !.dir = dirs[k]]]
                ELSE <<>>)
            \o (IF e.can_shoot /\ e.missiles > 0
                THEN [k \in DOMAIN targets |->
                         [NoAction EXCEPT !.type = "SHOOT", !.target_id = targets[k]]]
                ELSE <<>>)

\* Aircraft.get_allowed_actions: WAIT, the moves that stay in bounds and,
\* with a missile left, a shot at each visible enemy that is alive and in
\* range (the targets in the order of the ids; the code iterates a set)
GetAllowedActions(w, i) ==
    LET e == w.entities[i]
        dirs == SelectSeq(<<"UP", "DOWN", "LEFT", "RIGHT">>,
                          LAMBDA d : InBounds(w.grid, Destination(e, [dir |-> d])))
        targets == Ascending({t \in EnemyIds(w.team_views[e.team], e.team) :
                                 /\ HasEntity(w, t)
                                 /\ w.entities[t].alive
                                 /\ WithinRange(e.pos, w.entities[t].pos,
                                                e.missile_max_range)})
    IN IF ~e.alive THEN <<>>
       ELSE <<[NoAction EXCEPT !.type = "WAIT"]>>
            \o (IF e.can_move
                THEN [k \in DOMAIN dirs |->
                         [NoAction EXCEPT !.type = "MOVE", !.dir = dirs[k]]]
                ELSE <<>>)
            \o (IF e.can_shoot /\ e.missiles > 0
                THEN [k \in DOMAIN targets |->
                         [NoAction EXCEPT !.type = "SHOOT", !.target_id = targets[k]]]
                ELSE <<>>)

\* The mutant of the world-level validation that does not check the bounds
ValidateActionInWorldUnbounded(w, i, action) ==
    LET e == w.entities[i]
        v == ValidateAction(e, action)
    IN IF ~v.valid THEN v
       ELSE IF action.type = "MOVE" /\ InBounds(w.grid, Destination(e, action))
                 /\ Occupied(w, Destination(e, action), i)
            THEN Fail("OCCUPIED")
       ELSE IF action.type = "SHOOT"
            THEN (IF ~HasEntity(w, action.target_id) THEN Fail("TARGET_NOT_FOUND")
                  ELSE IF ~w.entities[action.target_id].alive THEN Fail("TARGET_DEAD")
                  ELSE IF action.target_id \notin EnemyIds(w.team_views[e.team], e.team)
                       THEN Fail("TARGET_NOT_VISIBLE")
                  ELSE IF ~WithinRange(e.pos, w.entities[action.target_id].pos,
                                       e.missile_max_range)
                       THEN Fail("OUT_OF_RANGE")
                  ELSE Valid)
       ELSE Valid

\* validate_action_in_world: the entity-level checks, then the checks that
\* need the world (bounds and occupancy for MOVE; target, visibility and
\* range for SHOOT)
ValidateActionInWorld(w, i, action) ==
    LET e == w.entities[i]
        v == ValidateAction(e, action)
    IN IF ~v.valid THEN v
       ELSE CASE action.type = "MOVE" ->
                   IF ~InBounds(w.grid, Destination(e, action)) THEN Fail("OUT_OF_BOUNDS")
                   ELSE IF Occupied(w, Destination(e, action), i) THEN Fail("OCCUPIED")
                   ELSE Valid
              [] action.type = "SHOOT" ->
                   IF ~HasEntity(w, action.target_id) THEN Fail("TARGET_NOT_FOUND")
                   ELSE IF ~w.entities[action.target_id].alive THEN Fail("TARGET_DEAD")
                   ELSE IF action.target_id \notin EnemyIds(w.team_views[e.team], e.team)
                        THEN Fail("TARGET_NOT_VISIBLE")
                   ELSE IF ~WithinRange(e.pos, w.entities[action.target_id].pos,
                                        e.missile_max_range)
                        THEN Fail("OUT_OF_RANGE")
                   ELSE Valid
              [] OTHER -> v

\* ------------------------------------------------------------------------
\* Movement resolver (env/mechanics/movement.py)
\* ------------------------------------------------------------------------
MovementResult(i, type, old, new, success, reason) ==
    [entity_id |-> i, action |-> type, old_pos |-> old, new_pos |-> new,
     success |-> success, failure_reason |-> reason]

\* The mutant of the movement step that does not look at occupancy
ResolveMovementSingleNoCollision(w, i, action) ==
    LET e == w.entities[i]
        v == ValidateAction(e, action)
        dest == Destination(e, action)
    IN IF v.valid /\ action.type = "MOVE" /\ InBounds(w.grid, dest)
       THEN [world |-> [w EXCEPT !.entities[i].pos = dest],
             result |-> MovementResult(i, action.type, e.pos, dest, TRUE, "None")]
       ELSE [world |-> w,
             result |-> MovementResult(i, action.type, e.pos, e.pos, v.valid, v.code)]

\* MovementResolver: one MOVE, TOGGLE or WAIT, applied in place
ResolveMovementSingle(w, i, action) ==
    LET e == w.entities[i]
        v == ValidateActionInWorld(w, i, action)
    IN IF ~v.valid
       THEN [world |-> w,
             result |-> MovementResult(i, action.type, e.pos, e.pos, FALSE, v.code)]
       ELSE CASE action.type = "MOVE" ->
                   [world |-> [w EXCEPT !.entities[i].pos = Destination(e, action)],
                    result |-> MovementResult(i, action.type, e.pos,
                                              Destination(e, action), TRUE, "None")]
              [] action.type = "TOGGLE" ->
                   [world |-> [w EXCEPT !.entities[i].on = action.on],
                    result |-> MovementResult(i, action.type, e.pos, e.pos, TRUE, "None")]
              [] OTHER ->
                   [world |-> w,
                    result |-> MovementResult(i, action.type, e.pos, e.pos, TRUE, "None")]

\* The entities of the turn's movement phase, first come first served
RECURSIVE MoveLoop(_, _, _, _)
MoveLoop(w, order, actions, results) ==
    IF order = <<>> THEN [world |-> w, results |-> results]
    ELSE LET Continue(r) ==
                 MoveLoop(r.world, Tail(order), actions, Append(results, r.result))
         IN Continue(ResolveMovementSingle(w, Head(order), actions[Head(order)]))

IsMovementAction(action) == action.type \in {"MOVE", "TOGGLE", "WAIT"}

\* The mutant of the movement test that counts every MOVE, applied or not
MovementOccurredAttempted(results) ==
    \E k \in DOMAIN results : results[k].action = "MOVE"

MovementOccurred(results) ==
    \E k \in DOMAIN results : results[k].success /\ results[k].old_pos # results[k].new_pos

\* MovementResolver.resolve_actions: shuffled order, then the stall counter
ResolveActions(w, actions) ==
    LET Counted(done, moved) ==
            [world |-> [done.world EXCEPT !.turns_without_movement =
                            IF moved THEN 0 ELSE @ + 1],
             results |-> done.results,
             movement_occurred |-> moved]
        Moved(done) == Counted(done, MovementOccurred(done.results))
        Ordered(sh) == Moved(MoveLoop([w EXCEPT !.rng = sh.rng], sh.seq, actions, <<>>))
    IN Ordered(Shuffle(w.rng,
                       SelectSeq(AliveIds(w), LAMBDA i : IsMovementAction(actions[i]))))

\* ------------------------------------------------------------------------
\* Combat resolver (env/mechanics/combat.py)
\* ------------------------------------------------------------------------
\* roll <= hit_probability(distance, max_range, base, min_p) for the roll
\* r/RngMod and the distance sqrt(d2): with p = base - (base - min_p) * d / R
\* in tenths, r/RngMod <= p/10 is RngMod*(base - min_p)*d <= (RngMod*base - 10*r)*R
RollHits(r, d2, max_range, base, minp) ==
    IF max_range <= 0 THEN r = 0
    ELSE IF d2 > max_range * max_range THEN r = 0
    ELSE LET k == (RngMod * base - 10 * r) * max_range
             l == RngMod * (base - minp)
         IN k >= 0 /\ l * l * d2 <= k * k

\* hit_probability raises ValueError: a positive range and a base or minimum
\* outside [0, 1], or a minimum above the base (the distance is never negative)
HitProbabilityRaises(max_range, base, minp) ==
    /\ max_range > 0
    /\ \/ base < 0 \/ base > 10
       \/ minp < 0 \/ minp > 10
       \/ minp > base

\* ------------------------------------------------------------------------
\* Python float arithmetic (IEEE 754 binary64, round to nearest, ties to
\* even), as far as hit_probability uses it.  A natural number is the
\* sequence of its limbs in base LimbBase, least significant first, without
\* leading zero limbs; a float is 0 or m * 2^e with a significand m of
\* MantissaBits bits.  No value here is near the exponent range's ends.
\* ------------------------------------------------------------------------
LimbBits == 14

LimbBase == 2 ^ LimbBits

MantissaBits == 53

FloatZero == [m |-> <<>>, e |-> 0]

\* The float operations of hit_probability: "/" on two integers, "<=", "-"
\* and "*" on two floats >= 0, each result correctly rounded
Float(op, left, right) ==
    LET
        RECURSIVE Norm(_)
        Norm(a) ==
            IF a = <<>> THEN <<>>
            ELSE IF a[Len(a)] = 0 THEN Norm(SubSeq(a, 1, Len(a) - 1))
            ELSE a

        RECURSIVE NFromInt(_)
        NFromInt(k) == IF k = 0 THEN <<>> ELSE <<k % LimbBase>> \o NFromInt(k \div LimbBase)

        RECURSIVE NAddC(_, _, _)
        NAddC(a, b, carry) ==
            IF a = <<>> /\ b = <<>> THEN (IF carry = 0 THEN <<>> ELSE <<carry>>)
            ELSE LET Sum(s) ==
                         <<s % LimbBase>>
                         \o NAddC(IF a = <<>> THEN <<>> ELSE Tail(a),
                                  IF b = <<>> THEN <<>> ELSE Tail(b), s \div LimbBase)
                 IN Sum((IF a = <<>> THEN 0 ELSE Head(a))
                        + (IF b = <<>> THEN 0 ELSE Head(b)) + carry)

        NAdd(a, b) == NAddC(a, b, 0)

        \* a - b - borrow for a >= b + borrow, before the leading zeros are dropped
        RECURSIVE NSubB(_, _, _)
        NSubB(a, b, borrow) ==
            IF a = <<>> THEN <<>>
            ELSE LET Diff(d) ==
                         <<d % LimbBase>>
                         \o NSubB(Tail(a), IF b = <<>> THEN <<>> ELSE Tail(b),
                                  IF d < 0 THEN 1 ELSE 0)
                 IN Diff(Head(a) - (IF b = <<>> THEN 0 ELSE Head(b)) - borrow)

        NSub(a, b) == Norm(NSubB(a, b, 0))

        \* -1, 0 or 1 as a < b, a = b or a > b
        RECURSIVE NCmp(_, _)
        NCmp(a, b) ==
            IF Len(a) # Len(b) THEN (IF Len(a) < Len(b) THEN -1 ELSE 1)
            ELSE IF a = <<>> THEN 0
            ELSE IF a[Len(a)] # b[Len(b)] THEN (IF a[Len(a)] < b[Len(b)] THEN -1 ELSE 1)
            ELSE NCmp(Norm(SubSeq(a, 1, Len(a) - 1)), Norm(SubSeq(b, 1, Len(b) - 1)))

        \* a * k + carry for 0 <= k < LimbBase, before the leading zeros are dropped
        RECURSIVE NMulSmallC(_, _, _)
        NMulSmallC(a, k, carry) ==
            IF a = <<>> THEN (IF carry = 0 THEN <<>> ELSE <<carry>>)
            ELSE <<(Head(a) * k + carry) % LimbBase>>
                 \o NMulSmallC(Tail(a), k, (Head(a) * k + carry) \div LimbBase)

        NMulSmall(a, k) == Norm(NMulSmallC(a, k, 0))

        RECURSIVE NMul(_, _)
        NMul(a, b) ==
            IF a = <<>> \/ b = <<>> THEN <<>>
            ELSE NAdd(NMulSmall(a, Head(b)),
                      IF Tail(b) = <<>> THEN <<>> ELSE <<0>> \o NMul(a, Tail(b)))

        \* Quotient and remainder of a by k for 0 < k <= LimbBase
        RECURSIVE NDivRem(_, _)
        NDivRem(a, k) ==
            IF a = <<>> THEN [q |-> <<>>, r |-> 0]
            ELSE LET Digit(hi) ==
                         [q |-> <<(hi.r * LimbBase + Head(a)) \div k>> \o hi.q,
                          r |-> (hi.r * LimbBase + Head(a)) % k]
                 IN Digit(NDivRem(Tail(a), k))

        \* a * 2^s
        NShl(a, s) ==
            IF a = <<>> THEN <<>>
            ELSE [i \in 1 .. (s \div LimbBits) |-> 0] \o NMulSmall(a, 2 ^ (s % LimbBits))

        \* floor(a / 2^s)
        NShr(a, s) ==
            IF Len(a) <= s \div LimbBits THEN <<>>
            ELSE Norm(NDivRem(SubSeq(a, (s \div LimbBits) + 1, Len(a)), 2 ^ (s % LimbBits)).q)

        RECURSIVE BitLength(_)
        BitLength(k) == IF k = 0 THEN 0 ELSE 1 + BitLength(k \div 2)

        NBits(a) == IF a = <<>> THEN 0 ELSE LimbBits * (Len(a) - 1) + BitLength(a[Len(a)])

        \* The float nearest to q * 2^e + (a positive fraction iff inexact), for a
        \* q of at least MantissaBits + 2 bits: the discarded bits decide the
        \* direction, an exact half goes to the even significand
        RoundKept(kept, low, half, inexact, e) ==
            LET Carried(m) ==
                    IF NBits(m) > MantissaBits THEN [m |-> NShr(m, 1), e |-> e + 1]
                    ELSE [m |-> m, e |-> e]
                Up(c) == \/ c > 0
                         \/ c = 0 /\ inexact
                         \/ c = 0 /\ ~inexact /\ kept[1] % 2 = 1
                Directed(up) == Carried(IF up THEN NAdd(kept, <<1>>) ELSE kept)
            IN Directed(Up(NCmp(low, half)))

        RoundQuotient(q, inexact, e) ==
            LET Cut(t) ==
                    LET Kept(kept) ==
                            RoundKept(kept, NSub(q, NShl(kept, t)), NShl(<<1>>, t - 1),
                                      inexact, e + t)
                    IN Kept(NShr(q, t))
            IN Cut(NBits(q) - MantissaBits)

        \* The float nearest to (n / d) * 2^e for a natural n > 0 and 0 < d <= LimbBase
        FloatRound(n, d, e) ==
            LET Scaled(s) ==
                    LET Divided(dv) == RoundQuotient(Norm(dv.q), dv.r # 0, e - s)
                    IN Divided(NDivRem(NShl(n, s), d))
                Shift(need) == IF need > 0 THEN need ELSE 0
            IN Scaled(Shift(MantissaBits + 2 + BitLength(d) - NBits(n)))

        \* float(k) / float(d) for integers k >= 0 and d > 0: the quotient of two
        \* exactly represented integers, correctly rounded
        FloatRatio(k, d) == IF k = 0 THEN FloatZero ELSE FloatRound(NFromInt(k), d, 0)

        \* The significands of x and y over their common, smaller exponent
        Aligned(x, y) ==
            LET At(e) == [x |-> NShl(x.m, x.e - e), y |-> NShl(y.m, y.e - e), e |-> e]
            IN At(IF x.e < y.e THEN x.e ELSE y.e)

        \* x <= y for floats >= 0
        FloatLe(x, y) ==
            IF x.m = <<>> THEN TRUE
            ELSE IF y.m = <<>> THEN FALSE
            ELSE LET Le(al) == NCmp(al.x, al.y) <= 0 IN Le(Aligned(x, y))

        \* x - y for floats x >= y >= 0
        FloatSub(x, y) ==
            IF y.m = <<>> THEN x
            ELSE LET Diff(al) ==
                         LET Rounded(n) == IF n = <<>> THEN FloatZero ELSE FloatRound(n, 1, al.e)
                         IN Rounded(NSub(al.x, al.y))
                 IN Diff(Aligned(x, y))

        \* x * y for floats >= 0
        FloatMul(x, y) ==
            IF x.m = <<>> \/ y.m = <<>> THEN FloatZero
            ELSE FloatRound(NMul(x.m, y.m), 1, x.e + y.e)
    IN CASE op = "/" -> FloatRatio(left, right)
         [] op = "<=" -> FloatLe(left, right)
         [] op = "-" -> FloatSub(left, right)
         [] op = "*" -> FloatMul(left, right)

\* hit_probability for a distance and a range that are whole numbers of cells
\* and a base and a minimum given in tenths (the floats k/10): the value
\* returned, or the ValueError raised
HitProbability(distance, max_range, base, minp) ==
    LET Interpolated(b, m, frac) ==
            [raised |-> "None",
             value |-> Float("-", b, Float("*", Float("-", b, m), frac))]
        Clamped(frac) == IF Float("<=", Float("/", 1, 1), frac) THEN Float("/", 1, 1) ELSE frac
    IN IF distance < 0 THEN [raised |-> "ValueError", value |-> FloatZero]
       ELSE IF max_range <= 0 THEN [raised |-> "None", value |-> FloatZero]
       ELSE IF HitProbabilityRaises(max_range, base, minp)
       THEN [raised |-> "ValueError", value |-> FloatZero]
       ELSE IF distance > max_range THEN [raised |-> "None", value |-> FloatZero]
       ELSE Interpolated(Float("/", base, 10), Float("/", minp, 10),
                         Clamped(Float("/", distance, max_range)))

CombatResult(attacker, target, success, hit, killed, log) ==
    [attacker_id |-> attacker, target_id |-> target, success |-> success,
     hit |-> hit, target_killed |-> killed, log |-> log]

\* The mutant of the missile decrement that fires a salvo of two
ExpendSalvo(attacker) == [attacker EXCEPT !.missiles = @ - 2]

\* attacker.missiles -= 1
ExpendMissile(attacker) == [attacker EXCEPT !.missiles = @ - 1]

\* CombatResolver.resolve_single
ResolveSingle(w, i, action) ==
    LET attacker == w.entities[i]
        validation == ValidateActionInWorld(w, i, action)
    IN IF ~validation.valid
       THEN [world |-> w,
             result |-> CombatResult(i, action.target_id, FALSE, "None", FALSE,
                                     validation.code)]
       ELSE IF ~HasEntity(w, action.target_id) \/ ~w.entities[action.target_id].alive
       THEN [world |-> w,
             result |-> CombatResult(i, action.target_id, FALSE, "None", FALSE,
                                     "TARGET_INVALID")]
       ELSE IF HitProbabilityRaises(attacker.missile_max_range, attacker.base_hit_prob,
                                    attacker.min_hit_prob)
       THEN [world |-> w,
             result |-> CombatResult(i, action.target_id, FALSE, "None", FALSE,
                                     "ValueError")]
       ELSE LET t == action.target_id
                target == w.entities[t]
                roll == RngNext(w.rng)
                hit == RollHits(roll, Dist2(attacker.pos, target.pos),
                                attacker.missile_max_range, attacker.base_hit_prob,
                                attacker.min_hit_prob)
                fired == ExpendMissile(attacker)
                cooled == IF attacker.kind = "sam" THEN StartCooldown(fired) ELSE fired
            IN [world |-> [w EXCEPT
                    !.rng = roll,
                    !.entities[i] = cooled,
                    !.pending_kills = IF hit THEN @ \cup {t} ELSE @,
                    !.team_views[target.team] = RecordEnemyFired(@, i)],
                result |-> CombatResult(i, t, TRUE, IF hit THEN "True" ELSE "False",
                                        hit, "FIRED")]

\* The exception of hit_probability left resolve_single: the last result of
\* the loop stands for it
Raised(results) == results # <<>> /\ results[Len(results)].log = "ValueError"

\* The mutant of resolve_all's loop that applies a kill as soon as it is marked
RECURSIVE CombatLoopEager(_, _, _, _)
CombatLoopEager(w, order, actions, results) ==
    IF order = <<>> \/ Raised(results) THEN [world |-> w, results |-> results]
    ELSE LET Killed(rw) ==
                 [rw EXCEPT !.entities =
                     [i \in DOMAIN rw.entities |->
                         [rw.entities[i] EXCEPT !.alive = @ /\ i \notin rw.pending_kills]]]
             Continue(r) ==
                 CombatLoopEager(Killed(r.world), Tail(order), actions,
                                 Append(results, r.result))
         IN Continue(ResolveSingle(w, Head(order), actions[Head(order)]))

RECURSIVE CombatLoop(_, _, _, _)
CombatLoop(w, order, actions, results) ==
    IF order = <<>> \/ Raised(results) THEN [world |-> w, results |-> results]
    ELSE LET Continue(r) ==
                 CombatLoop(r.world, Tail(order), actions, Append(results, r.result))
         IN Continue(ResolveSingle(w, Head(order), actions[Head(order)]))

\* The mutant of resolve_all that takes every alive entity for a shooter
ResolveAllUnfiltered(w, actions) ==
    LET Ordered(sh) == CombatLoop([w EXCEPT !.rng = sh.rng], sh.seq, actions, <<>>)
    IN Ordered(Shuffle(w.rng, AliveIds(w)))

\* CombatResolver.resolve_all
ResolveAll(w, actions) ==
    LET Ordered(sh) == CombatLoop([w EXCEPT !.rng = sh.rng], sh.seq, actions, <<>>)
    IN Ordered(Shuffle(w.rng,
                       SelectSeq(AliveIds(w), LAMBDA i : actions[i].type = "SHOOT")))

\* CombatResolver._extract_kill_order
RECURSIVE ExtractKillOrder(_)
ExtractKillOrder(results) ==
    IF results = <<>> THEN <<>>
    ELSE (IF Head(results).target_killed THEN <<Head(results).target_id>> ELSE <<>>)
         \o ExtractKillOrder(Tail(results))

\* The mutant of apply_pending_deaths that is given no kill order: every
\* pending id, in the order of the ids
KillIdsPending(kill_order, pending, seen) == Ascending(pending)

\* apply_pending_deaths: the ids of kill_order that are pending, each once
RECURSIVE KillIds(_, _, _)
KillIds(kill_order, pending, seen) ==
    IF kill_order = <<>> THEN <<>>
    ELSE LET id == Head(kill_order)
         IN IF id \in pending /\ id \notin seen
            THEN <<id>> \o KillIds(Tail(kill_order), pending, seen \cup {id})
            ELSE KillIds(Tail(kill_order), pending, seen)

\* "<label> was destroyed!"
DeathLog(id) == [destroyed |-> id]

RECURSIVE KillLoop(_, _, _, _)
KillLoop(w, kill_ids, killed, logs) ==
    IF kill_ids = <<>>
    THEN [world |-> w, killed_entity_ids |-> killed, death_logs |-> logs]
    ELSE LET id == Head(kill_ids)
         IN IF HasEntity(w, id) /\ w.entities[id].alive
            THEN KillLoop([w EXCEPT !.entities[id].alive = FALSE], Tail(kill_ids),
                          Append(killed, id), Append(logs, DeathLog(id)))
            ELSE KillLoop(w, Tail(kill_ids), killed, logs)

\* CombatResolver.apply_pending_deaths
ApplyPendingDeaths(w, kill_order) ==
    LET Cleared(applied) ==
            [world |-> [applied.world EXCEPT !.pending_kills = {}],
             killed_entity_ids |-> applied.killed_entity_ids,
             death_logs |-> applied.death_logs]
    IN Cleared(KillLoop(w, KillIds(kill_order, w.pending_kills, {}), <<>>, <<>>))

\* The mutant of has_combat_occurred that counts every attempt as a shot
HasCombatOccurredAttempted(results) == results # <<>>

\* CombatResolver.has_combat_occurred
HasCombatOccurred(results) == \E k \in DOMAIN results : results[k].success

\* CombatResolver.resolve_combat
ResolveCombat(w, actions) ==
    LET Counted(combat_results, deaths, combat_occurred) ==
            [world |-> [deaths.world EXCEPT !.turns_without_shooting =
                            IF combat_occurred THEN 0 ELSE @ + 1],
             combat_results |-> combat_results,
             death_logs |-> deaths.death_logs,
             killed_entity_ids |-> deaths.killed_entity_ids,
             combat_occurred |-> combat_occurred]
        Resolved(resolved) ==
            IF Raised(resolved.results)
            THEN [world |-> resolved.world, combat_results |-> resolved.results,
                  death_logs |-> <<>>, killed_entity_ids |-> <<>>,
                  combat_occurred |-> FALSE]
            ELSE Counted(resolved.results,
                         ApplyPendingDeaths(resolved.world,
                                            ExtractKillOrder(resolved.results)),
                         HasCombatOccurred(resolved.results))
    IN Resolved(ResolveAll(w, actions))

\* ------------------------------------------------------------------------
\* Victory conditions (env/mechanics/victory.py)
\* ------------------------------------------------------------------------
VictoryResult(over, result, winner, reason) ==
    [is_game_over |-> over, result |-> result, winner |-> winner, reason |-> reason]

AwacsDead(w, team) ==
    \E i \in AllIds(w) :
        w.entities[i].kind = "awacs" /\ w.entities[i].team = team /\ ~w.entities[i].alive

MissilesExhausted(w) ==
    \A i \in AllIds(w) :
        (w.entities[i].alive /\ w.entities[i].can_shoot) => w.entities[i].missiles <= 0

\* The mutant of the stalemate test that fires one turn late
StalemateReachedLate(w, cfg) == w.turns_without_shooting > cfg.max_stalemate_turns

\* The turns-without-shooting counter has reached its threshold
StalemateReached(w, cfg) == w.turns_without_shooting >= cfg.max_stalemate_turns

\* The mutant of check_all that looks at the stall counters first
CheckAllCountersFirst(w, cfg) ==
    IF StalemateReached(w, cfg)
    THEN VictoryResult(TRUE, "DRAW", NoTeam, "STALEMATE")
    ELSE IF w.turns_without_movement >= cfg.max_no_move_turns
    THEN VictoryResult(TRUE, "DRAW", NoTeam, "NO_MOVEMENT")
    ELSE IF AwacsDead(w, "BLUE") /\ AwacsDead(w, "RED")
    THEN VictoryResult(TRUE, "DRAW", NoTeam, "BOTH_AWACS_DESTROYED")
    ELSE IF AwacsDead(w, "RED")
    THEN VictoryResult(TRUE, "BLUE_WINS", "BLUE", "AWACS_DESTROYED")
    ELSE IF AwacsDead(w, "BLUE")
    THEN VictoryResult(TRUE, "RED_WINS", "RED", "AWACS_DESTROYED")
    ELSE VictoryResult(FALSE, "IN_PROGRESS", NoTeam, "None")

\* VictoryConditions.check_all: the terminal conditions in priority order
CheckAll(w, cfg) ==
    IF AwacsDead(w, "BLUE") /\ AwacsDead(w, "RED")
    THEN VictoryResult(TRUE, "DRAW", NoTeam, "BOTH_AWACS_DESTROYED")
    ELSE IF AwacsDead(w, "RED")
    THEN VictoryResult(TRUE, "BLUE_WINS", "BLUE", "AWACS_DESTROYED")
    ELSE IF AwacsDead(w, "BLUE")
    THEN VictoryResult(TRUE, "RED_WINS", "RED", "AWACS_DESTROYED")
    ELSE IF cfg.check_missile_exhaustion /\ MissilesExhausted(w)
    THEN VictoryResult(TRUE, "DRAW", NoTeam, "MISSILE_EXHAUSTION")
    ELSE IF StalemateReached(w, cfg)
    THEN VictoryResult(TRUE, "DRAW", NoTeam, "STALEMATE")
    ELSE IF w.turns_without_movement >= cfg.max_no_move_turns
    THEN VictoryResult(TRUE, "DRAW", NoTeam, "NO_MOVEMENT")
    ELSE IF cfg.max_turns # NoMaxTurns /\ w.turn >= cfg.max_turns
    THEN VictoryResult(TRUE, "DRAW", NoTeam, "MAX_TURNS")
    ELSE VictoryResult(FALSE, "IN_PROGRESS", NoTeam, "None")

\* ------------------------------------------------------------------------
\* Scenarios (env/scenario.py): the inputs of reset()
\* ------------------------------------------------------------------------
Scenario(name, width, height, stalemate, no_move, max_turns, exhaustion, seed, entities) ==
    [name |-> name, grid_width |-> width, grid_height |-> height,
     max_stalemate_turns |-> stalemate, max_no_move_turns |-> no_move,
     max_turns |-> max_turns, check_missile_exhaustion |-> exhaustion,
     seed |-> seed, entities |-> entities]

\* Two AWACS and two aircraft filling a 2x2 grid: every shot is in range
Duel(seed) ==
    Scenario("duel", 2, 2, 2, 3, NoMaxTurns, TRUE, seed,
             <<AWACS("BLUE", <<0, 0>>, 2),
               Aircraft("BLUE", <<0, 1>>, 2, 1, 2, 8, 1),
               AWACS("RED", <<1, 1>>, 2),
               Aircraft("RED", <<1, 0>>, 2, 2, 2, 10, 10)>>)

\* A decoy and two movers around a free cell on a 3x1 strip
Crossing(seed) ==
    Scenario("crossing", 3, 1, 2, 2, 3, FALSE, seed,
             <<Decoy("BLUE", <<0, 0>>),
               Aircraft("RED", <<2, 0>>, 1, 0, 1, 8, 1)>>)

\* A SAM facing an aircraft that starts outside its own radar range
Battery(seed) ==
    Scenario("battery", 3, 2, 2, 3, NoMaxTurns, TRUE, seed,
             <<SAM("BLUE", <<0, 0>>, 2, 2, 2, 8, 1, 2, TRUE),
               Aircraft("RED", <<2, 1>>, 1, 1, 1, 8, 1)>>)

\* Both AWACS alive and the only armed unit out of ammunition, with the
\* missile-exhaustion check enabled
Disarmed(seed) ==
    Scenario("disarmed", 3, 1, 2, 3, NoMaxTurns, TRUE, seed,
             <<AWACS("BLUE", <<0, 0>>, 1), Aircraft("RED", <<1, 0>>, 1, 0, 1, 8, 1),
               AWACS("RED", <<2, 0>>, 1)>>)

\* An aircraft whose minimum hit probability is above its base one, next to
\* the enemy AWACS, with an aircraft of that side behind it; the game is
\* capped at two turns
Skewed(seed) ==
    Scenario("skewed", 3, 1, 2, 3, 2, TRUE, seed,
             <<Aircraft("BLUE", <<0, 0>>, 1, 1, 1, 3, 5),
               AWACS("RED", <<1, 0>>, 1),
               Aircraft("RED", <<2, 0>>, 2, 1, 2, 8, 8)>>)

\* Two aircraft of one side with the enemy AWACS in range of both
Crossfire(seed) ==
    Scenario("crossfire", 3, 1, 2, 3, NoMaxTurns, TRUE, seed,
             <<Aircraft("BLUE", <<0, 0>>, 2, 1, 2, 10, 10),
               Aircraft("BLUE", <<1, 0>>, 1, 1, 1, 10, 10),
               AWACS("RED", <<2, 0>>, 1)>>)

\* The scenarios an environment is reset with
Scenarios ==
    {Duel(1)} \cup {Crossing(s) : s \in {0, 5}}
    \cup {Battery(s) : s \in {0, 2}} \cup {Disarmed(s) : s \in {0, NoSeed}}
    \cup {Skewed(0)} \cup {Crossfire(0)}

\* ------------------------------------------------------------------------
\* GridCombatEnv (env/environment.py)
\* ------------------------------------------------------------------------
NoWorld == [none |-> TRUE]

IsNone(x) == "none" \in DOMAIN x

NoInfo ==
    [movement |-> <<>>,
     combat |-> [combat_results |-> <<>>, death_logs |-> <<>>,
                 killed_entity_ids |-> <<>>,
                 combat_occurred |-> FALSE],
     victory |-> VictoryResult(FALSE, "IN_PROGRESS", NoTeam, "None"),
     sensed_after_movement |-> [team \in TeamSet |-> EmptyView]]

\* ------------------------------------------------------------------------
\* StepInfo serialization: movement, combat and victory, each through its
\* own to_dict and from_dict
\* ------------------------------------------------------------------------
\* dict.get(key, default)
Get(data, key, default) == IF key \in DOMAIN data THEN data[key] ELSE default

\* CombatResult.to_dict
CombatResultToDict(r) ==
    [attacker_id |-> r.attacker_id, target_id |-> r.target_id,
     success |-> r.success, hit |-> r.hit, target_killed |-> r.target_killed,
     log |-> r.log]

\* CombatResult.from_dict
CombatResultFromDict(data) ==
    CombatResult(data.attacker_id, Get(data, "target_id", "None"), data.success,
                 Get(data, "hit", "None"), Get(data, "target_killed", FALSE),
                 Get(data, "log", ""))

\* CombatResolutionResult.to_dict
CombatToDict(c) ==
    [combat_results |->
         [k \in DOMAIN c.combat_results |-> CombatResultToDict(c.combat_results[k])],
     death_logs |-> c.death_logs,
     killed_entity_ids |-> c.killed_entity_ids,
     combat_occurred |-> c.combat_occurred]

\* CombatResolutionResult.from_dict
CombatFromDict(data) ==
    LET Results(rs) == [k \in DOMAIN rs |-> CombatResultFromDict(rs[k])]
    IN [combat_results |-> Results(Get(data, "combat_results", <<>>)),
        death_logs |-> Get(data, "death_logs", <<>>),
        killed_entity_ids |-> Get(data, "killed_entity_ids", <<>>),
        combat_occurred |-> Get(data, "combat_occurred", FALSE)]

\* ActionResolutionResult.to_dict
MovementToDict(m) ==
    [k \in DOMAIN m |->
        [entity_id |-> m[k].entity_id, action |-> m[k].action,
         old_pos |-> m[k].old_pos, new_pos |-> m[k].new_pos,
         success |-> m[k].success, failure_reason |-> m[k].failure_reason]]

\* ActionResolutionResult.from_dict
MovementFromDict(data) ==
    [k \in DOMAIN data |->
        MovementResult(data[k].entity_id, data[k].action, data[k].old_pos,
                       data[k].new_pos, data[k].success, data[k].failure_reason)]

\* VictoryResult.to_dict
VictoryToDict(v) ==
    [is_game_over |-> v.is_game_over, result |-> v.result, winner |-> v.winner,
     reason |-> v.reason]

\* VictoryResult.from_dict
VictoryFromDict(data) ==
    VictoryResult(data.is_game_over, data.result, data.winner, data.reason)

StepInfo(movement, combat, victory) ==
    [movement |-> movement, combat |-> combat, victory |-> victory]

\* StepInfo.to_dict
StepInfoToDict(info) ==
    [movement |-> MovementToDict(info.movement),
     combat |-> CombatToDict(info.combat),
     victory |-> VictoryToDict(info.victory)]

\* StepInfo.from_dict
StepInfoFromDict(data) ==
    StepInfo(MovementFromDict(data.movement), CombatFromDict(data.combat),
             VictoryFromDict(data.victory))

NoRewards == [team \in TeamSet |-> 0]

\* What a call leaves with its caller: the operation, the action map it was
\* passed, the exception it raised and the tuple it returned
Returned(op, raised, done, rewards, info) ==
    [op |-> op, actions |-> <<>>, raised |-> raised, done |-> done,
     rewards |-> rewards, info |-> info]

\* The mutant of reset() that does not pass the scenario's seed on
NewWorldUnseeded(scen, entropy) ==
    [grid |-> [width |-> scen.grid_width, height |-> scen.grid_height],
     entities |-> scen.entities,
     turn |-> 0, turns_without_shooting |-> 0, turns_without_movement |-> 0,
     rng |-> entropy, pending_kills |-> {},
     game_over |-> FALSE, winner |-> NoTeam, game_over_reason |-> "None",
     team_views |-> [team \in TeamSet |-> EmptyView]]

\* reset(), world is None: WorldState(width, height, seed), the counters at
\* zero, the scenario's entities added in order
NewWorld(scen, entropy) ==
    [grid |-> [width |-> scen.grid_width, height |-> scen.grid_height],
     entities |-> scen.entities,
     turn |-> 0, turns_without_shooting |-> 0, turns_without_movement |-> 0,
     rng |-> SeedRng(scen.seed, entropy), pending_kills |-> {},
     game_over |-> FALSE, winner |-> NoTeam, game_over_reason |-> "None",
     team_views |-> [team \in TeamSet |-> EmptyView]]

\* GridCombatEnv.reset
ResetEnv(scen, entropy) ==
    [world |-> RefreshAllObservations(NewWorld(scen, entropy)),
     last |-> Returned("reset", "None", FALSE, NoRewards, NoInfo)]


\* The mutant of reset() that installs the given world before checking it
ResetEnvWithWorldUnchecked(current, scen, saved) ==
    IF saved.grid.width # scen.grid_width \/ saved.grid.height # scen.grid_height
    THEN [world |-> saved,
          last |-> Returned("reset", "ValueError", FALSE, NoRewards, NoInfo)]
    ELSE [world |-> RefreshAllObservations(saved),
          last |-> Returned("reset", "None", FALSE, NoRewards, NoInfo)]

\* GridCombatEnv.reset with an existing world: the world is cloned, its grid
\* is compared with the scenario's, and only then is it installed and sensed
ResetEnvWithWorld(current, scen, saved) ==
    IF saved.grid.width # scen.grid_width \/ saved.grid.height # scen.grid_height
    THEN [world |-> current,
          last |-> Returned("reset", "ValueError", FALSE, NoRewards, NoInfo)]
    ELSE [world |-> RefreshAllObservations(saved),
          last |-> Returned("reset", "None", FALSE, NoRewards, NoInfo)]

\* The mutant of _housekeeping that ticks nothing
HousekeepingIdle(w) == w

\* GridCombatEnv._housekeeping: tick the cooldown of every alive SAM
Housekeeping(w) ==
    [w EXCEPT !.entities =
        [i \in AllIds(w) |->
            IF w.entities[i].alive /\ w.entities[i].kind = "sam"
            THEN TickCooldown(w.entities[i])
            ELSE w.entities[i]]]

\* The mutant of _calculate_rewards that does not penalise the loser
CalculateRewardsWinnerOnly(victory) ==
    IF ~victory.is_game_over THEN [team \in TeamSet |-> 0]
    ELSE IF victory.result = "BLUE_WINS" THEN [team \in TeamSet |-> IF team = "BLUE" THEN 1 ELSE 0]
    ELSE IF victory.result = "RED_WINS" THEN [team \in TeamSet |-> IF team = "RED" THEN 1 ELSE 0]
    ELSE [team \in TeamSet |-> 0]

\* GridCombatEnv._calculate_rewards
CalculateRewards(victory) ==
    IF ~victory.is_game_over THEN [team \in TeamSet |-> 0]
    ELSE IF victory.result = "BLUE_WINS" THEN [team \in TeamSet |-> IF team = "BLUE" THEN 1 ELSE -1]
    ELSE IF victory.result = "RED_WINS" THEN [team \in TeamSet |-> IF team = "RED" THEN 1 ELSE -1]
    ELSE [team \in TeamSet |-> 0]

\* What a sensor refresh computes for each team (visibility only)
Sensed(w) ==
    [team \in TeamSet |->
        [RefreshView(w, team) EXCEPT !.enemy_fired = {}]]

\* GridCombatEnv.step on an environment that has a world; an exception that
\* leaves resolve_combat leaves step() with the world as far as it was
\* changed and nothing returned.  The field
\* sensed_after_movement of the info is no field of StepInfo: it records what
\* a refresh between movement and combat would have computed, for comparison
\* with the views the step ends with.
StepEnv(w, cfg, actions) ==
    LET \* lines 264-281: the outcome is recorded and the tuple returned
        Victory(action_results, combat_results, sensed, victory_result) ==
            [world |-> IF victory_result.is_game_over
                       THEN [sensed EXCEPT !.game_over = TRUE,
                                           !.winner = victory_result.winner,
                                           !.game_over_reason = victory_result.reason]
                       ELSE sensed,
             last |-> [Returned("step", "None", victory_result.is_game_over,
                                CalculateRewards(victory_result),
                                [movement |-> action_results.results,
                                 combat |-> [combat_results |-> combat_results.combat_results,
                                             death_logs |-> combat_results.death_logs,
                                             killed_entity_ids |-> combat_results.killed_entity_ids,
                                             combat_occurred |-> combat_results.combat_occurred],
                                 victory |-> victory_result,
                                 sensed_after_movement |-> Sensed(action_results.world)])
                           EXCEPT !.actions = actions]]
        \* line 265: check_all
        Sensing(action_results, combat_results, sensed) ==
            Victory(action_results, combat_results, sensed, CheckAll(sensed, cfg))
        \* line 262: refresh_all_observations
        Combat(action_results, combat_results) ==
            IF Raised(combat_results.combat_results)
            THEN [world |-> combat_results.world,
                  last |-> [Returned("step", "ValueError", FALSE, NoRewards, NoInfo)
                                EXCEPT !.actions = actions]]
            ELSE Sensing(action_results, combat_results,
                         RefreshAllObservations(combat_results.world))
        \* line 257: resolve_combat
        Movement(action_results) ==
            Combat(action_results, ResolveCombat(action_results.world, actions))
    \* lines 247-253: the turn counter, housekeeping, resolve_actions
    IN Movement(ResolveActions(Housekeeping([w EXCEPT !.turn = @ + 1]), actions))

\* step(), lines 247-253: the world that combat starts from
AfterMovement(w, actions) ==
    ResolveActions(Housekeeping([w EXCEPT !.turn = @ + 1]), actions).world

\* ------------------------------------------------------------------------
\* The action maps a caller may pass to step().  Actions that the code
\* rejects before it reads their parameter are represented once: a MOVE by
\* an entity that cannot move, a SHOOT by one that cannot shoot, a TOGGLE by
\* one that is no SAM; an entry for a dead entity is never looked at.
\* ------------------------------------------------------------------------
ActionChoices(w, i) ==
    LET e == w.entities[i]
        \* Action.wait, Action.move, Action.shoot, Action.toggle
        Wait == [NoAction EXCEPT !.type = "WAIT"]
        Move(dir) == [NoAction EXCEPT !.type = "MOVE", !.dir = dir]
        Shoot(target_id) == [NoAction EXCEPT !.type = "SHOOT", !.target_id = target_id]
        Toggle(on) == [NoAction EXCEPT !.type = "TOGGLE", !.on = on]
        \* An action built with a parameter of the wrong type
        Malformed(type) == [NoAction EXCEPT !.type = type, !.wf = FALSE]
    IN IF ~e.alive THEN {Wait, Shoot(0)}
       ELSE {Wait}
            \cup (IF e.can_move
                  THEN {Move(d) : d \in {"UP", "DOWN", "LEFT", "RIGHT"}}
                       \cup {Malformed("MOVE")}
                  ELSE {Move("UP")})
            \cup (IF e.can_shoot
                  THEN {Shoot(t) : t \in AllIds(w) \cup {0}} \cup {Malformed("SHOOT")}
                  ELSE {Shoot(0)})
            \cup (IF e.kind = "sam"
                  THEN {Toggle(b) : b \in BOOLEAN} \cup {Malformed("TOGGLE")}
                  ELSE {Toggle(TRUE)})

\* One action for each of at most MaxActors entities, none for the others
ActionMaps(w) ==
    LET ActionMap(actors, chosen) ==
            [i \in AllIds(w) |-> IF i \in actors THEN chosen[i] ELSE NoAction]
        ActorSets == {a \in SUBSET AllIds(w) : Cardinality(a) <= MaxActors}
    IN UNION {{ActionMap(actors, chosen) :
                   chosen \in {c \in [actors -> UNION {ActionChoices(w, i) : i \in actors}] :
                                   \A i \in actors : c[i] \in ActionChoices(w, i)}}
              : actors \in ActorSets}

\* ------------------------------------------------------------------------
\* State machine
\* ------------------------------------------------------------------------
\* world, scenario: the fields of the environment; last: the tuple its last
\* call returned, until the caller has taken it; twin: a second environment
\* driven with the same calls; heap: the Entity and WorldState objects of
\* the process by address, where object identity matters; runner: the
\* fields of a GameRunner that drives the environment
VARIABLES world, scenario, last, twin, heap, runner

vars == <<world, scenario, last, twin, heap, runner>>

NoScenario == [none |-> TRUE]

NoTwin == [none |-> TRUE]

Taken == Returned("taken", "None", FALSE, NoRewards, NoInfo)

\* GridCombatEnv.__init__
Init ==
    /\ world = NoWorld
    /\ scenario = NoScenario
    /\ last = Taken
    /\ twin = NoTwin
    /\ heap = NoObject
    /\ runner = NoObject

\* env.reset(scenario) on a fresh environment
Reset ==
    /\ IsNone(world)
    /\ last = Taken
    /\ \E scen \in {sc \in Scenarios :
                      \A k \in DOMAIN sc.entities : ValidEntityParams(sc.entities[k])} :
         \E entropy \in RngStates :
            \E r \in {ResetEnv(scen, entropy)} :
               /\ scenario' = scen
               /\ world' = r.world
               /\ last' = r.last
    /\ UNCHANGED <<twin, heap, runner>>

\* env.reset(scenario, world) with a saved world, on a fresh environment or
\* on one that has a world; an environment that has a world is reset with
\* the scenario it was reset with before.  The saved worlds are the opening
\* worlds of three scenarios, of three different grid sizes
ResetWithWorld ==
    /\ last = Taken
    /\ \E scen \in (IF IsNone(world) THEN Scenarios ELSE {scenario}) :
         \E saved \in {NewWorld(Duel(1), 0), NewWorld(Battery(0), 0),
                       NewWorld(Crossing(0), 0)} :
            \E r \in {ResetEnvWithWorld(world, scen, saved)} :
               /\ scenario' = scen
               /\ world' = r.world
               /\ last' = r.last
    /\ UNCHANGED <<twin, heap, runner>>

\* env.step(actions) after reset()
Step ==
    /\ ~IsNone(world)
    /\ last = Taken
    /\ world.turn < MaxSteps
    /\ \E actions \in ActionMaps(world) :
         \E r \in {StepEnv(world, scenario, actions)} :
            /\ world' = r.world
            /\ last' = r.last
    /\ UNCHANGED <<scenario, twin, heap, runner>>

\* The mutant of step() without the guard: self.world.turn on None
StepBeforeResetUnguarded ==
    /\ IsNone(world)
    /\ last = Taken
    /\ last' = Returned("step", "AttributeError", FALSE, NoRewards, NoInfo)
    /\ UNCHANGED <<world, scenario, twin, heap, runner>>

\* env.step(actions) before any reset(): RuntimeError
StepBeforeReset ==
    /\ IsNone(world)
    /\ last = Taken
    /\ last' = Returned("step", "RuntimeError", FALSE, NoRewards, NoInfo)
    /\ UNCHANGED <<world, scenario, twin, heap, runner>>

\* The caller takes the returned tuple and is free to call again
Take ==
    /\ last # Taken
    /\ last' = Taken
    /\ UNCHANGED <<world, scenario, twin, heap, runner>>

Next == Reset \/ ResetWithWorld \/ Step \/ StepBeforeReset \/ Take

Spec == Init /\ [][Next]_vars

\* ------------------------------------------------------------------------
\* Two environments reset with the same scenario and stepped with the same
\* action maps; each draws its own entropy when the scenario has no seed
\* ------------------------------------------------------------------------
TwinReset ==
    /\ IsNone(world)
    /\ last = Taken
    /\ \E scen \in {Crossing(0), Crossing(5), Battery(0), Disarmed(NoSeed)} :
         \E entropy \in RngStates, twin_entropy \in RngStates :
            \E r \in {ResetEnv(scen, entropy)} :
               /\ scenario' = scen
               /\ world' = r.world
               /\ last' = r.last
               /\ twin' = ResetEnv(scen, twin_entropy)
    /\ UNCHANGED <<heap, runner>>

TwinStep ==
    /\ ~IsNone(world)
    /\ last = Taken
    /\ world.turn < MaxSteps
    /\ \E actions \in ActionMaps(world) :
         \E r \in {StepEnv(world, scenario, actions)} :
            /\ world' = r.world
            /\ last' = r.last
            /\ twin' = StepEnv(twin.world, scenario, actions)
    /\ UNCHANGED <<scenario, heap, runner>>

TwinTake ==
    /\ last # Taken
    /\ last' = Taken
    /\ twin' = [twin EXCEPT !.last = Taken]
    /\ UNCHANGED <<world, scenario, heap, runner>>

NextTwin == TwinReset \/ TwinStep \/ TwinTake

SpecTwin == Init /\ [][NextTwin]_vars

\* ------------------------------------------------------------------------
\* Whole episodes: reset(), then step() until it returns isDone=True (the
\* way a GameRunner drives its environment), in scenarios small enough to be
\* played to the end
\* ------------------------------------------------------------------------
MaxEpisode == 5

\* One missile on the board, a draw after two turns without a shot; the
\* no-movement threshold is out of reach and the exhaustion check is off
Standoff(seed) ==
    Scenario("standoff", 3, 1, 2, 9, NoMaxTurns, FALSE, seed,
             <<Aircraft("BLUE", <<0, 0>>, 2, 1, 2, 8, 1), Decoy("RED", <<2, 0>>)>>)

\* One missile on each side, a draw after one turn without a shot
Skirmish(seed) ==
    Scenario("skirmish", 2, 1, 1, 9, NoMaxTurns, FALSE, seed,
             <<Aircraft("BLUE", <<0, 0>>, 1, 1, 1, 8, 1),
               Aircraft("RED", <<1, 0>>, 1, 1, 1, 8, 1)>>)

\* Two aircraft that cannot miss each other
Exchange(seed) ==
    Scenario("exchange", 2, 1, 1, 9, NoMaxTurns, FALSE, seed,
             <<Aircraft("BLUE", <<0, 0>>, 1, 1, 1, 10, 10),
               Aircraft("RED", <<1, 0>>, 1, 1, 1, 10, 10)>>)

\* A SAM with one missile next to an enemy decoy
Outpost(seed) ==
    Scenario("outpost", 3, 1, 2, 9, NoMaxTurns, FALSE, seed,
             <<SAM("BLUE", <<0, 0>>, 1, 1, 1, 8, 1, 1, TRUE), Decoy("RED", <<1, 0>>)>>)

EpisodeScenarios ==
    {Standoff(0), Standoff(5), Skirmish(0), Skirmish(5), Exchange(0), Exchange(5),
     Crossfire(0), Outpost(0)}

\* The missiles of all entities of a scenario
RECURSIVE TotalMissiles(_)
TotalMissiles(entities) ==
    IF entities = <<>> THEN 0
    ELSE (IF HasMissiles(Head(entities)) THEN Head(entities).missiles ELSE 0)
         + TotalMissiles(Tail(entities))

EpisodeReset ==
    /\ IsNone(world)
    /\ last = Taken
    /\ \E scen \in EpisodeScenarios :
         \E r \in {ResetEnv(scen, 0)} :
            /\ scenario' = scen
            /\ world' = r.world
            /\ last' = r.last
    /\ UNCHANGED <<twin, heap, runner>>

\* env.step(actions) as long as no step has returned isDone=True
EpisodeStep ==
    /\ ~IsNone(world)
    /\ last = Taken
    /\ ~world.game_over
    /\ world.turn < MaxEpisode
    /\ \E actions \in ActionMaps(world) :
         \E r \in {StepEnv(world, scenario, actions)} :
            /\ world' = r.world
            /\ last' = r.last
    /\ UNCHANGED <<scenario, twin, heap, runner>>

NextEpisode == EpisodeReset \/ EpisodeStep \/ Take

SpecEpisode == Init /\ [][NextEpisode]_vars

\* ------------------------------------------------------------------------
\* Object identity.  A caller owns a Scenario and a WorldState W and resets
\* two environments with them.  heap.objects holds the Entity objects of the
\* process by address and heap.worlds its WorldState objects, whose entities
\* are addresses; heap.scenario is the caller's Scenario (its entities are
\* addresses), heap.W the address of the caller's world, heap.envs[k] the
\* address of self.world of environment k (0 before its reset).  world and
\* twin.world are the worlds of the two environments, read through the heap.
\* ------------------------------------------------------------------------
MaxAliasSteps == 2

\* The scenarios the caller builds
AliasScenarios == {Standoff(0), Exchange(0)}

\* A WorldState object as the model's world value
Deref(h, wa) ==
    [h.worlds[wa] EXCEPT
        !.entities = [i \in DOMAIN h.worlds[wa].entities |->
                         h.objects[h.worlds[wa].entities[i]].entity]]

\* The resolvers change self.world and its entities in place
Store(h, wa, w) ==
    LET addrs == h.worlds[wa].entities
        Index(a) == CHOOSE i \in DOMAIN addrs : addrs[i] = a
    IN [h EXCEPT !.worlds[wa] = [w EXCEPT !.entities = addrs],
                 !.objects = [a \in DOMAIN h.objects |->
                                 IF \E i \in DOMAIN addrs : addrs[i] = a
                                 THEN [h.objects[a] EXCEPT !.entity = w.entities[Index(a)]]
                                 ELSE h.objects[a]]]

\* The mutant of Scenario.clone that keeps the entity objects
ScenarioCloneShallow(h, entities) == [heap |-> h, entities |-> entities]

\* Scenario.clone: from_json_dict(to_json_dict()), a new Entity for each
\* entity of the list
ScenarioClone(h, entities) ==
    [heap |-> [h EXCEPT !.objects =
                  @ \o [i \in DOMAIN entities |->
                           EntityFromDict(EntityToDict(h.objects[entities[i]])).object]],
     entities |-> [i \in DOMAIN entities |-> Len(h.objects) + i]]

\* Scenario.from_dict on the dict of Scenario.to_dict(), whose "entities" is
\* the scenario's list of Entity objects: _to_entity copies each
ScenarioFromDict(h, entities) ==
    [heap |-> [h EXCEPT !.objects =
                  @ \o [i \in DOMAIN entities |->
                           EntityFromDict(EntityToDict(h.objects[entities[i]])).object]],
     entities |-> [i \in DOMAIN entities |-> Len(h.objects) + i]]

\* WorldState.clone: a new world with new entities
WorldClone(h, wa) ==
    LET addrs == h.worlds[wa].entities
        fresh == [i \in DOMAIN addrs |-> Len(h.objects) + i]
    IN [heap |-> [h EXCEPT !.objects = @ \o [i \in DOMAIN addrs |-> h.objects[addrs[i]]],
                           !.worlds = Append(@, [h.worlds[wa] EXCEPT !.entities = fresh])],
        world |-> Len(h.worlds) + 1]

\* reset(scenario) or reset(scenario, world=W) of environment k: the scenario
\* is normalized, then the world is built from the copy's entities or cloned
\* from W and installed
AliasResetEnv(h, k, how, entropy) ==
    LET Install(c, wa, r) ==
            [heap |-> [Store(c, wa, r.world) EXCEPT !.envs[k] = wa], last |-> r.last]
        Build(c, scen) ==
            IF how = "world"
            THEN LET Resume(wc) ==
                         Install(wc.heap, wc.world,
                                 ResetEnvWithWorld(NoWorld, scen, Deref(wc.heap, wc.world)))
                 IN Resume(WorldClone(c.heap, h.W))
            ELSE Install([c.heap EXCEPT !.worlds =
                             Append(@, [NewWorld(scen, entropy) EXCEPT !.entities = c.entities])],
                         Len(c.heap.worlds) + 1, ResetEnv(scen, entropy))
        Normalize(c) ==
            [built |-> Build(c, [h.scenario EXCEPT
                                    !.entities = [i \in DOMAIN c.entities |->
                                                     c.heap.objects[c.entities[i]].entity]]),
             scenario |-> [h.scenario EXCEPT
                              !.entities = [i \in DOMAIN c.entities |->
                                               c.heap.objects[c.entities[i]].entity]]]
    IN Normalize(IF how = "dict" THEN ScenarioFromDict(h, h.scenario.entities)
                 ELSE ScenarioClone(h, h.scenario.entities))

\* The caller builds a scenario and a world of its own
InitAlias ==
    /\ world = NoWorld
    /\ scenario = NoScenario
    /\ last = Taken
    /\ twin = NoTwin
    /\ runner = NoObject
    /\ \E scen \in AliasScenarios :
          LET n == Len(scen.entities)
              opening == ResetEnv(scen, 0).world
          IN heap = [objects |-> [a \in 1 .. 2 * n |->
                                     EntityObject(IF a > n THEN a - n ELSE a, "None",
                                                  scen.entities[IF a > n THEN a - n ELSE a])],
                     worlds |-> <<[opening EXCEPT !.entities = [i \in 1 .. n |-> n + i]]>>,
                     scenario |-> [scen EXCEPT !.entities = [i \in 1 .. n |-> i]],
                     W |-> 1,
                     envs |-> <<0, 0>>]

\* The two environments as the caller sees them after a call
AliasView(h, first, second) ==
    /\ heap' = h
    /\ UNCHANGED runner
    /\ world' = IF h.envs[1] = 0 THEN NoWorld ELSE Deref(h, h.envs[1])
    /\ last' = first
    /\ twin' = IF h.envs[2] = 0 THEN NoTwin
               ELSE [world |-> Deref(h, h.envs[2]), last |-> second]

\* env.reset(scenario) with the Scenario or its dict, or
\* env.reset(scenario, world=W), on the first environment
AliasReset ==
    /\ heap.envs[1] = 0
    /\ last = Taken
    /\ IF IsNone(twin) THEN TRUE ELSE twin.last = Taken
    /\ \E how \in {"instance", "dict", "world"} :
          \E r \in {AliasResetEnv(heap, 1, how, 0)} :
              /\ scenario' = r.scenario
              /\ AliasView(r.built.heap, r.built.last, Taken)

\* other.reset(scenario) with the same Scenario on a second environment
AliasResetTwin ==
    /\ heap.envs[2] = 0
    /\ last = Taken
    /\ \E r \in {AliasResetEnv(heap, 2, "instance", 0)} :
          /\ scenario' = r.scenario
          /\ AliasView(r.built.heap, last, r.built.last)

\* step() on one of the two environments
AliasStep ==
    /\ last = Taken
    /\ IF IsNone(twin) THEN TRUE ELSE twin.last = Taken
    /\ \E k \in 1 .. 2 :
          /\ heap.envs[k] # 0
          /\ (IF heap.envs[1] = 0 THEN 0 ELSE heap.worlds[heap.envs[1]].turn)
                + (IF heap.envs[2] = 0 THEN 0 ELSE heap.worlds[heap.envs[2]].turn)
                < MaxAliasSteps
          /\ \E actions \in ActionMaps(Deref(heap, heap.envs[k])) :
                \E r \in {StepEnv(Deref(heap, heap.envs[k]), scenario, actions)} :
                    AliasView(Store(heap, heap.envs[k], r.world),
                              IF k = 1 THEN r.last ELSE last,
                              IF k = 2 THEN r.last ELSE Taken)
    /\ UNCHANGED scenario

\* The caller takes what the last call returned
AliasTake ==
    /\ IF last # Taken THEN TRUE ELSE IF IsNone(twin) THEN FALSE ELSE twin.last # Taken
    /\ AliasView(heap, Taken, Taken)
    /\ UNCHANGED scenario

NextAlias == AliasReset \/ AliasResetTwin \/ AliasStep \/ AliasTake

SpecAlias == InitAlias /\ [][NextAlias]_vars

\* ------------------------------------------------------------------------
\* GameRunner (game_runner.py) and Frame (game_frame.py).  runner holds
\* _done, _last_info and _final_world, and whether run() is in its loop;
\* world is the world of the runner's environment; last is what step() or
\* run() left with its caller: the frame it returned or the exception it
\* raised.
\* ------------------------------------------------------------------------
\* Frame(**kwargs): the __init__ the dataclass generates takes the fields of
\* the class as keywords, the optional ones defaulting to None, and no other
Frame(kwargs) ==
    LET fields == {"world", "actions", "action_metadata", "step_info"}
        defaults == [actions |-> NoObject, action_metadata |-> NoObject,
                     step_info |-> NoObject]
    IN IF DOMAIN kwargs \subseteq fields /\ "world" \in DOMAIN kwargs
       THEN [raised |-> "None", frame |-> kwargs @@ defaults]
       ELSE [raised |-> "TypeError", frame |-> NoObject]

\* GameRunner.step with the action maps the two agents return merged into
\* one
GameRunnerStep(r, w, cfg, actions) ==
    LET Leave(new_runner, new_world, made, stepped) ==
            [runner |-> new_runner, world |-> new_world,
             last |-> [op |-> "GameRunner.step", raised |-> made.raised,
                       frame |-> made.frame, stepped |-> stepped]]
        Raise(exception, new_world, stepped) ==
            Leave(r, new_world, [raised |-> exception, frame |-> NoObject], stepped)
        \* lines 99-110
        Stepped(world_before, s) ==
            IF s.last.raised # "None" THEN Raise(s.last.raised, s.world, 1)
            ELSE Leave([r EXCEPT !.done = s.last.done,
                                 !.last_info = s.last.info,
                                 !.final_world = IF s.last.done THEN s.world ELSE @],
                       s.world,
                       Frame([world |-> world_before, actions |-> actions,
                              action_metadata |-> NoObject,
                              step_info |-> s.last.info, done |-> s.last.done]),
                       1)
    IN IF r.done
       THEN IF ~IsNone(r.final_world)
            THEN Leave([r EXCEPT !.final_world = NoWorld], w,
                       Frame([world |-> r.final_world, done |-> TRUE]), 0)
            ELSE Raise("RuntimeError", w, 0)
       ELSE Stepped(w, StepEnv(w, cfg, actions))

\* GameRunner(scenario): the environment is reset with a copy of the
\* scenario
InitRunner ==
    /\ last = Taken
    /\ twin = NoTwin
    /\ heap = NoObject
    /\ \E scen \in {Standoff(0), Exchange(0), Outpost(0)} :
          /\ scenario = scen
          /\ world = ResetEnv(scen, 0).world
          /\ runner = [done |-> FALSE, last_info |-> NoInfo, final_world |-> NoWorld,
                       running |-> FALSE]

\* The action maps the agents can return; none is asked for once the game
\* is over
AgentActions == IF runner.done THEN {<<>>} ELSE ActionMaps(world)

\* runner.step()
RunnerStep ==
    /\ last = Taken
    /\ ~runner.running
    /\ IF runner.done THEN TRUE ELSE world.turn < MaxEpisode
    /\ \E actions \in AgentActions :
          \E r \in {GameRunnerStep(runner, world, scenario, actions)} :
              /\ runner' = r.runner
              /\ world' = r.world
              /\ last' = r.last
    /\ UNCHANGED <<scenario, twin, heap>>

\* runner.run(): one pass of its loop, which ends when step() raises or
\* returns a frame whose done is true
RunnerRun ==
    /\ IF runner.running THEN TRUE ELSE last = Taken
    /\ IF runner.done THEN TRUE ELSE world.turn < MaxEpisode
    /\ \E actions \in AgentActions :
          \E r \in {GameRunnerStep(runner, world, scenario, actions)} :
              /\ world' = r.world
              /\ IF r.last.raised # "None"
                 THEN /\ runner' = [r.runner EXCEPT !.running = FALSE]
                      /\ last' = [r.last EXCEPT !.op = "GameRunner.run"]
                 ELSE IF "done" \notin DOMAIN r.last.frame
                 THEN /\ runner' = [r.runner EXCEPT !.running = FALSE]
                      /\ last' = [r.last EXCEPT !.op = "GameRunner.run",
                                                !.raised = "AttributeError"]
                 ELSE IF r.last.frame.done
                 THEN /\ runner' = [r.runner EXCEPT !.running = FALSE]
                      /\ last' = [r.last EXCEPT !.op = "GameRunner.run"]
                 ELSE /\ runner' = [r.runner EXCEPT !.running = TRUE]
                      /\ last' = r.last
    /\ UNCHANGED <<scenario, twin, heap>>

NextRunner == RunnerStep \/ RunnerRun \/ Take

SpecRunner == InitRunner /\ [][NextRunner]_vars

\* ------------------------------------------------------------------------
\* hit_probability on its own: the parameters are drawn first (valid ones,
\* or a range <= 0), then the function is called once
\* ------------------------------------------------------------------------
MaxRange == 4

InitHit ==
    /\ world = NoWorld
    /\ scenario = NoScenario
    /\ twin = NoTwin
    /\ heap = NoObject
    /\ runner = NoObject
    /\ \E base \in 0 .. 10, max_range \in -1 .. MaxRange :
           \E minp \in 0 .. base, distance \in 0 .. MaxRange + 1 :
               last = [op |-> "hit_probability", distance |-> distance,
                       max_range |-> max_range, base |-> base, min_p |-> minp,
                       returned |-> FALSE, raised |-> "None", value |-> FloatZero]

HitProbabilityCall ==
    /\ ~last.returned
    /\ LET Return(p) ==
               last' = [last EXCEPT !.returned = TRUE, !.raised = p.raised,
                                    !.value = p.value]
       IN Return(HitProbability(last.distance, last.max_range, last.base, last.min_p))
    /\ UNCHANGED <<world, scenario, twin, heap, runner>>

NextHit == HitProbabilityCall

SpecHit == InitHit /\ [][NextHit]_vars

\* ------------------------------------------------------------------------
\* Serialization on its own: an entity or a step info is drawn, to_dict is
\* called on it and from_dict on the dict
\* ------------------------------------------------------------------------
MaxResults == 2

\* The entities of the scenarios, named or not, in the states they can be
\* in during a game
EntityObjects ==
    LET EntityStates(e) ==
            {[e EXCEPT !.alive = alive, !.missiles = missiles, !.on = on,
                       !.cooldown = cooldown] :
                alive \in BOOLEAN, missiles \in 0 .. e.missiles,
                on \in (IF e.kind = "sam" THEN BOOLEAN ELSE {e.on}),
                cooldown \in 0 .. e.cooldown_steps}
    IN UNION {UNION {{EntityObject(i, name, state) :
                          name \in {"None", "Viper"},
                          state \in EntityStates(scen.entities[i])} :
                     i \in DOMAIN scen.entities} :
              scen \in Scenarios}

\* Step infos of up to MaxResults combat results: a hit that kills, a miss
\* and a refused shot
StepInfos ==
    LET CombatResults ==
            {CombatResult(1, 2, TRUE, "True", TRUE, "FIRED"),
             CombatResult(2, 1, TRUE, "False", FALSE, "FIRED"),
             CombatResult(2, 3, FALSE, "None", FALSE, "NO_MISSILES")}
        RECURSIVE KilledOf(_)
        KilledOf(results) ==
            IF results = <<>> THEN <<>>
            ELSE (IF Head(results).target_killed
                  THEN <<Head(results).target_id>> ELSE <<>>)
                 \o KilledOf(Tail(results))
    IN
    {StepInfo(movement,
              [combat_results |-> results,
               death_logs |-> [k \in DOMAIN KilledOf(results) |->
                                  DeathLog(KilledOf(results)[k])],
               killed_entity_ids |-> KilledOf(results),
               combat_occurred |-> HasCombatOccurred(results)],
              victory) :
        movement \in {<<>>,
                      <<MovementResult(1, "MOVE", <<0, 0>>, <<1, 0>>, TRUE, "None")>>,
                      <<MovementResult(2, "MOVE", <<0, 0>>, <<0, 0>>, FALSE, "OUT_OF_BOUNDS"),
                        MovementResult(1, "WAIT", <<1, 0>>, <<1, 0>>, TRUE, "None")>>},
        results \in UNION {[1 .. n -> CombatResults] : n \in 0 .. MaxResults},
        victory \in {VictoryResult(FALSE, "IN_PROGRESS", NoTeam, "None"),
                     VictoryResult(TRUE, "BLUE_WINS", "BLUE", "AWACS_DESTROYED"),
                     VictoryResult(TRUE, "DRAW", NoTeam, "STALEMATE")}}

InitDict ==
    /\ world = NoWorld
    /\ scenario = NoScenario
    /\ twin = NoTwin
    /\ heap = NoObject
    /\ runner = NoObject
    /\ \E class \in {"Entity", "StepInfo"} :
          \E object \in (IF class = "Entity" THEN EntityObjects ELSE StepInfos) :
              last = [op |-> class, stage |-> "object", object |-> object,
                      data |-> NoObject, raised |-> "None", restored |-> NoObject]

EntityToDictCall ==
    /\ last.op = "Entity" /\ last.stage = "object"
    /\ last' = [last EXCEPT !.stage = "dict", !.data = EntityToDict(last.object)]
    /\ UNCHANGED <<world, scenario, twin, heap, runner>>

EntityFromDictCall ==
    /\ last.op = "Entity" /\ last.stage = "dict"
    /\ LET Return(r) ==
               last' = [last EXCEPT !.stage = "restored", !.raised = r.raised,
                                    !.restored = r.object]
       IN Return(EntityFromDict(last.data))
    /\ UNCHANGED <<world, scenario, twin, heap, runner>>

StepInfoToDictCall ==
    /\ last.op = "StepInfo" /\ last.stage = "object"
    /\ last' = [last EXCEPT !.stage = "dict", !.data = StepInfoToDict(last.object)]
    /\ UNCHANGED <<world, scenario, twin, heap, runner>>

StepInfoFromDictCall ==
    /\ last.op = "StepInfo" /\ last.stage = "dict"
    /\ last' = [last EXCEPT !.stage = "restored",
                            !.restored = StepInfoFromDict(last.data)]
    /\ UNCHANGED <<world, scenario, twin, heap, runner>>

NextDict ==
    EntityToDictCall \/ EntityFromDictCall \/ StepInfoToDictCall \/ StepInfoFromDictCall

SpecDict == InitDict /\ [][NextDict]_vars

\* ------------------------------------------------------------------------
\* Properties
\* ------------------------------------------------------------------------
StepReturned == ~IsNone(world) /\ last.op = "step" /\ last.raised = "None"

\* C1: after reset() and at the end of every step(), no two alive entities
\* occupy the same grid cell
UniqueCells ==
    ~IsNone(world) =>
        \A i, j \in AllIds(world) :
            (i # j /\ world.entities[i].alive /\ world.entities[j].alive)
                => world.entities[i].pos # world.entities[j].pos

\* A step in which a MOVE into a cell held by an alive entity was refused
UniqueCellsWitness ==
    /\ StepReturned
    /\ \E k \in DOMAIN last.info.movement :
          /\ last.info.movement[k].action = "MOVE"
          /\ last.info.movement[k].failure_reason = "OCCUPIED"

AwacsLossAnyTeam ==
    StepReturned =>
        \A team \in TeamSet :
            AwacsDead(world, team) =>
                /\ last.done
                /\ last.info.victory.winner = OtherTeam(team)

\* C3, amended: at the end of a step() with a team's AWACS dead, step()
\* returns isDone=True, and with the opposing team as winner when that
\* team's own AWACS is still alive, whatever the counters
AwacsLoss ==
    StepReturned =>
        \A team \in TeamSet :
            AwacsDead(world, team) =>
                /\ last.done
                /\ ~AwacsDead(world, OtherTeam(team)) =>
                      /\ last.info.victory.winner = OtherTeam(team)
                      /\ world.winner = OtherTeam(team)

\* The end of a step with one AWACS dead and the no-movement counter at its
\* threshold
AwacsLossWitness ==
    /\ StepReturned
    /\ \E team \in TeamSet :
          AwacsDead(world, team) /\ ~AwacsDead(world, OtherTeam(team))
    /\ world.turns_without_movement >= scenario.max_no_move_turns

\* C4: the missile count of an armed entity never increases from one
\* step() to the next and is never negative
MissilesNeverIncrease ==
    [][~IsNone(world') =>
          \A i \in AllIds(world') :
              world'.entities[i].can_shoot =>
                  /\ world'.entities[i].missiles >= 0
                  /\ (~IsNone(world) /\ last'.op = "step") =>
                        world'.entities[i].missiles <= world.entities[i].missiles]_vars

\* A step in which an entity that started with missiles is refused a shot
\* because it has fired them all
MissilesNeverIncreaseWitness ==
    /\ StepReturned
    /\ \E k \in DOMAIN last.info.combat.combat_results :
          LET r == last.info.combat.combat_results[k]
          IN /\ r.log = "NO_MISSILES"
             /\ scenario.entities[r.attacker_id].missiles > 0
             /\ world.entities[r.attacker_id].missiles = 0

\* C5: after reset() and at the end of every step(), a SAM that is switched
\* off is not in the enemy team's visible-enemy set
HiddenSam ==
    ~IsNone(world) =>
        \A i \in AllIds(world) :
            (world.entities[i].kind = "sam" /\ ~world.entities[i].on)
                => LET enemy == OtherTeam(world.entities[i].team)
                   IN i \notin EnemyIds(world.team_views[enemy], enemy)

\* The end of a step with an alive SAM switched off inside the radar range
\* of an alive enemy
HiddenSamWitness ==
    /\ StepReturned
    /\ \E i, j \in AllIds(world) :
          /\ world.entities[i].kind = "sam" /\ world.entities[i].alive
          /\ ~world.entities[i].on
          /\ world.entities[j].alive /\ world.entities[j].team # world.entities[i].team
          /\ ActiveRadarRange(world.entities[j]) > 0
          /\ WithinRange(world.entities[j].pos, world.entities[i].pos,
                         ActiveRadarRange(world.entities[j]))

\* C6: in every team view, an observation of an enemy Decoy has kind
\* Aircraft and an observation of an own Decoy has kind Decoy
DecoyKind ==
    ~IsNone(world) =>
        \A team \in TeamSet :
            \A t \in DOMAIN world.team_views[team].observations :
                world.entities[t].kind = "decoy" =>
                    world.team_views[team].observations[t].kind =
                        (IF world.entities[t].team = team THEN "decoy" ELSE "aircraft")

\* The end of a step with a Decoy in the view of the enemy team
DecoyKindWitness ==
    /\ StepReturned
    /\ \E team \in TeamSet :
          \E t \in DOMAIN world.team_views[team].observations :
              world.entities[t].kind = "decoy" /\ world.entities[t].team # team

\* C7: the team views at the end of a step() are the ones the Sensor System
\* computes after movement and before combat; they are not refreshed after
\* combat
SensedBeforeCombat ==
    StepReturned =>
        \A team \in TeamSet :
            /\ world.team_views[team].friendly_ids
                  = last.info.sensed_after_movement[team].friendly_ids
            /\ world.team_views[team].observations
                  = last.info.sensed_after_movement[team].observations

\* C8: once a step() has set game_over, every later step() leaves it set,
\* keeps the recorded winner and reason and reports isDone=True
StickyGameOver ==
    [][(~IsNone(world) /\ world.game_over /\ last'.op = "step"
          /\ last'.raised = "None") =>
          /\ world'.game_over
          /\ world'.winner = world.winner
          /\ world'.game_over_reason = world.game_over_reason
          /\ last'.done]_vars

QuietSinceReset ==
    /\ StepReturned
    /\ world.turn = scenario.max_stalemate_turns
    /\ world.turns_without_shooting = world.turn
    /\ \A team \in TeamSet :
          \E i \in AllIds(world) :
              /\ world.entities[i].kind = "awacs"
              /\ world.entities[i].team = team
              /\ world.entities[i].alive

StalemateDraw ==
    /\ last.done
    /\ last.info.victory.winner = NoTeam
    /\ last.info.victory.reason = "STALEMATE"

\* C10 as stated: after max_stalemate_turns steps from reset without a shot
\* and with both AWACS alive, the last of them returns isDone=True with no
\* winner and the stalemate reason
StalemateAfterQuietTurns == QuietSinceReset => StalemateDraw

\* C10, amended: the same, when the missile-exhaustion check is disabled or
\* an alive armed entity still has a missile
StalemateAfterQuietTurnsArmed ==
    (QuietSinceReset /\ ~(scenario.check_missile_exhaustion /\ MissilesExhausted(world)))
        => StalemateDraw

\* The end of the second quiet step of a duel with missiles left
StalemateAfterQuietTurnsWitness ==
    /\ QuietSinceReset
    /\ ~MissilesExhausted(world)
    /\ last.info.victory.reason = "STALEMATE"

\* The results of the combat phase of the step that has returned
ShotResults(returned) == returned.info.combat.combat_results

\* C11: a SHOOT of an alive entity that fails validation yields a combat
\* result with success=False, hit=None and the validation message, and
\* leaves the shooter's missiles and cooldown as housekeeping left them; a
\* step whose shots all fail kills nobody, marks nobody for a kill, records
\* no firing and counts as a turn without shooting
FailedShotNoEffect ==
    [][(~IsNone(world) /\ last'.op = "step" /\ last'.raised = "None") =>
          /\ \A i \in AllIds(world) :
                (world.entities[i].alive /\ last'.actions[i].type = "SHOOT") =>
                    \E k \in DOMAIN ShotResults(last') :
                        ShotResults(last')[k].attacker_id = i
          /\ \A k \in DOMAIN ShotResults(last') :
                LET r == ShotResults(last')[k]
                    before == Housekeeping(world).entities[r.attacker_id]
                    after == world'.entities[r.attacker_id]
                IN ~r.success =>
                      /\ r.hit = "None" /\ ~r.target_killed
                      /\ r.log \in {"NO_CAPABILITY", "NO_MISSILES", "INVALID_TARGET",
                                     "SAM_OFF", "SAM_COOLDOWN", "TARGET_NOT_FOUND",
                                     "TARGET_DEAD", "TARGET_NOT_VISIBLE", "OUT_OF_RANGE"}
                      /\ after.missiles = before.missiles
                      /\ after.cooldown = before.cooldown
          /\ (\A k \in DOMAIN ShotResults(last') : ~ShotResults(last')[k].success) =>
                /\ \A i \in AllIds(world) :
                      world'.entities[i].alive = world.entities[i].alive
                /\ \A team \in TeamSet :
                      world'.team_views[team].enemy_fired
                          = world.team_views[team].enemy_fired
                /\ world'.pending_kills \subseteq world.pending_kills
                /\ ~last'.info.combat.combat_occurred
                /\ world'.turns_without_shooting = world.turns_without_shooting + 1]_vars

\* The end of a step in which an entity without missiles is refused a shot
FailedShotNoEffectWitness ==
    /\ StepReturned
    /\ \E k \in DOMAIN ShotResults(last) :
          /\ ShotResults(last)[k].log = "NO_MISSILES"
          /\ ~ShotResults(last)[k].success
          /\ world.entities[ShotResults(last)[k].attacker_id].missiles = 0

\* C12: no SHOOT issued by a SAM that is off, and no SHOOT issued at one,
\* passes validation, from the turn of the toggle on (combat does not change
\* the on flag, so the flag at the end of the step is the flag the shot met)
OffSamNoShots ==
    StepReturned =>
        LET \* A SAM of the world whose radar is off
            IsOffSam(w, i) ==
                HasEntity(w, i) /\ w.entities[i].kind = "sam" /\ ~w.entities[i].on
        IN \A k \in DOMAIN ShotResults(last) :
               (\/ IsOffSam(world, ShotResults(last)[k].attacker_id)
                \/ IsOffSam(world, ShotResults(last)[k].target_id))
                   => ~ShotResults(last)[k].success

\* C13: in one step an entity's own action does at most one thing: its
\* position changes, by one cell along one axis and only under a MOVE; its on
\* flag changes, only under a TOGGLE; its missile count changes, by exactly
\* minus one and only under a SHOOT
OneActionPerEntity ==
    [][(~IsNone(world) /\ last'.op = "step" /\ last'.raised = "None") =>
          \A i \in AllIds(world) :
              LET before == world.entities[i]
                  after == world'.entities[i]
                  action == last'.actions[i]
              IN /\ after.pos # before.pos =>
                       action.type = "MOVE" /\ Dist2(before.pos, after.pos) = 1
                 /\ after.on # before.on => action.type = "TOGGLE"
                 /\ after.missiles # before.missiles =>
                       action.type = "SHOOT" /\ after.missiles = before.missiles - 1
                 /\ Cardinality({c \in {"pos", "on", "missiles"} :
                                    after[c] # before[c]}) <= 1]_vars

\* The end of a step in which one entity moved a cell and another fired
OneActionPerEntityWitness ==
    /\ StepReturned
    /\ \E i, j \in AllIds(world) :
          /\ i # j
          /\ last.actions[i].type = "MOVE"
          /\ \E m \in DOMAIN last.info.movement :
                /\ last.info.movement[m].entity_id = i
                /\ last.info.movement[m].new_pos # last.info.movement[m].old_pos
          /\ \E k \in DOMAIN ShotResults(last) :
                ShotResults(last)[k].attacker_id = j /\ ShotResults(last)[k].success

\* C14: an alive entity whose id is absent from the action map of a step
\* keeps its position, on flag and missile count through the step and has no
\* shot among the step's combat results
AbsentEntityInert ==
    [][(~IsNone(world) /\ last'.op = "step" /\ last'.raised = "None") =>
          \A i \in AllIds(world) :
              (world.entities[i].alive /\ last'.actions[i].type = "NONE") =>
                  /\ world'.entities[i].pos = world.entities[i].pos
                  /\ world'.entities[i].on = world.entities[i].on
                  /\ world'.entities[i].missiles = world.entities[i].missiles
                  /\ \A k \in DOMAIN ShotResults(last') :
                        ShotResults(last')[k].attacker_id # i]_vars

\* The end of a step in which an armed entity with missiles had no action
\* while an enemy fired
AbsentEntityInertWitness ==
    /\ StepReturned
    /\ \E i, j \in AllIds(world) :
          /\ last.actions[i].type = "NONE"
          /\ world.entities[i].can_shoot /\ world.entities[i].missiles > 0
          /\ world.entities[j].team # world.entities[i].team
          /\ \E k \in DOMAIN ShotResults(last) :
                ShotResults(last)[k].attacker_id = j /\ ShotResults(last)[k].success

\* Entity i is in no team's view of w: neither a friendly id, nor observed,
\* nor an observer of anything
\* C15: alive only goes from true to false and the entity collection keeps
\* its dead; an entity that was dead when a step began stays dead, does not
\* move, toggle or fire in the step, is no valid target of the step's shots,
\* and neither observes nor is observed in the views the step leaves
DeadStaysDead ==
    [][(~IsNone(world) /\ last'.op = "step" /\ last'.raised = "None") =>
          /\ Len(world'.entities) = Len(world.entities)
          /\ \A i \in AllIds(world) :
                ~world.entities[i].alive =>
                    /\ ~world'.entities[i].alive
                    /\ world'.entities[i].pos = world.entities[i].pos
                    /\ world'.entities[i].on = world.entities[i].on
                    /\ world'.entities[i].missiles = world.entities[i].missiles
                    /\ \A k \in DOMAIN ShotResults(last') :
                          /\ ShotResults(last')[k].attacker_id # i
                          /\ ShotResults(last')[k].target_id = i =>
                                ~ShotResults(last')[k].success
                    /\ \A team \in TeamSet :
                          LET view == world'.team_views[team]
                          IN /\ i \notin view.friendly_ids
                             /\ i \notin DOMAIN view.observations
                             /\ \A t \in DOMAIN view.observations :
                                   i \notin view.observations[t].seen_by]_vars

\* The end of a step in which an entity killed in an earlier step was given
\* a SHOOT and was itself the target of an enemy's SHOOT
DeadStaysDeadWitness ==
    /\ StepReturned
    /\ \E i \in AllIds(world) :
          /\ ~world.entities[i].alive
          /\ last.actions[i].type = "SHOOT"
          /\ i \notin {last.info.combat.killed_entity_ids[k] :
                           k \in DOMAIN last.info.combat.killed_entity_ids}
          /\ \E k \in DOMAIN ShotResults(last) :
                ShotResults(last)[k].target_id = i /\ ShotResults(last)[k].log = "TARGET_DEAD"

\* The largest missile count tried for an enemy that is not observed
MaxHiddenMissiles == 2

ZeroSumRewards ==
    StepReturned =>
        /\ DOMAIN last.rewards = TeamSet
        /\ last.rewards["BLUE"] + last.rewards["RED"] = 0
        /\ IF last.done /\ last.info.victory.winner \in TeamSet
           THEN /\ last.rewards[last.info.victory.winner] = 1
                /\ last.rewards[OtherTeam(last.info.victory.winner)] = -1
           ELSE \A team \in TeamSet : last.rewards[team] = 0

\* The end of a step that a team wins
ZeroSumRewardsWitness ==
    /\ StepReturned
    /\ last.done
    /\ last.info.victory.winner = "RED"
    /\ last.rewards["RED"] = 1

\* C18: step() on an environment that was never reset fails with the usage
\* error (RuntimeError) and processes no turn: no world is created and
\* nothing of the environment changes
StepNeedsReset ==
    [][(IsNone(world) /\ last'.op = "step") =>
          /\ last'.raised = "RuntimeError"
          /\ IsNone(world')
          /\ scenario' = scenario
          /\ last'.info = NoInfo /\ last'.rewards = NoRewards]_vars

\* step() has been called before any reset() and has raised
StepNeedsResetWitness ==
    IsNone(world) /\ last.op = "step" /\ last.raised # "None"

\* C19: a reset() that raises the configuration error (ValueError) for a
\* world whose grid differs from the scenario's leaves the environment's
\* world, if any, as it was; a reset() that returns has installed a world
\* whose grid is the scenario's
ResetRejectsGridMismatch ==
    [][last'.op = "reset" =>
          IF last'.raised = "ValueError"
          THEN world' = world
          ELSE /\ last'.raised = "None"
               /\ world'.grid.width = scenario'.grid_width
               /\ world'.grid.height = scenario'.grid_height]_vars

\* reset() with a world of another grid size has raised on an environment
\* that has played a turn
ResetRejectsGridMismatchWitness ==
    /\ last.op = "reset" /\ last.raised = "ValueError"
    /\ ~IsNone(world)
    /\ world.turn > 0

\* C20: every entity of a world has missiles >= 0, 0 <= min_hit_prob <=
\* base_hit_prob <= 1 and radar_range >= 0, and no step() fails in combat
\* resolution
HitParamsNeverFail ==
    ~IsNone(world) =>
        /\ \A i \in AllIds(world) :
              /\ world.entities[i].missiles >= 0
              /\ world.entities[i].radar_range >= 0
              /\ 0 <= world.entities[i].min_hit_prob
              /\ world.entities[i].min_hit_prob <= world.entities[i].base_hit_prob
              /\ world.entities[i].base_hit_prob <= 10
        /\ last.op = "step" => last.raised = "None"


\* ------------------------------------------------------------------------
\* C21: for valid parameters hit_probability(d) lies in [min_p, base], does
\* not increase with d on [0, max_range], is base at d = 0 and min_p at
\* d = max_range, and is 0 for every d > max_range; for max_range <= 0 it is
\* 0 at every distance.
\* ------------------------------------------------------------------------
HitProbabilityShape ==
    (last.op = "hit_probability" /\ last.returned) =>
        /\ last.raised = "None"
        /\ IF last.max_range <= 0 \/ last.distance > last.max_range
           THEN last.value = FloatZero
           ELSE /\ Float("<=", Float("/", last.min_p, 10), last.value)
                /\ Float("<=", last.value, Float("/", last.base, 10))
                /\ \A nearer \in 0 .. last.distance :
                       Float("<=", last.value,
                               HitProbability(nearer, last.max_range, last.base,
                                              last.min_p).value)
                /\ last.distance = 0 => last.value = Float("/", last.base, 10)
                /\ last.distance = last.max_range
                       => last.value = Float("/", last.min_p, 10)

SimultaneousCombat ==
    [][(~IsNone(world) /\ last'.op = "step" /\ last'.raised = "None") =>
          LET results == ShotResults(last')
              hits == {results[k].target_id :
                          k \in {h \in DOMAIN results : results[h].hit = "True"}}
              killed == last'.info.combat.killed_entity_ids
              Started(mid) ==
                  /\ \A i \in AllIds(world) :
                        ResolveAll(mid, last'.actions).world.entities[i].alive
                            = world.entities[i].alive
                  /\ \A k \in DOMAIN results :
                        results[k].success
                            <=> ValidateActionInWorld(mid, results[k].attacker_id,
                                    last'.actions[results[k].attacker_id]).valid
          IN /\ Started(AfterMovement(world, last'.actions))
             /\ {killed[k] : k \in DOMAIN killed} = hits
             /\ \A i \in AllIds(world) :
                   world'.entities[i].alive
                       <=> (world.entities[i].alive /\ i \notin hits)
             /\ \A k, l \in DOMAIN results :
                   (/\ results[k].hit = "True" /\ results[l].hit = "True"
                    /\ results[k].target_id = results[l].attacker_id
                    /\ results[l].target_id = results[k].attacker_id)
                       => /\ ~world'.entities[results[k].attacker_id].alive
                          /\ ~world'.entities[results[l].attacker_id].alive]_vars

\* The end of a step in which two entities hit each other: the one hit
\* first fired after it was hit, and both are dead
SimultaneousCombatWitness ==
    /\ StepReturned
    /\ \E k, l \in DOMAIN ShotResults(last) :
          LET first == ShotResults(last)[k]
              second == ShotResults(last)[l]
          IN /\ k < l
             /\ first.hit = "True" /\ second.hit = "True"
             /\ first.target_id = second.attacker_id
             /\ second.target_id = first.attacker_id
             /\ ~world.entities[first.attacker_id].alive
             /\ ~world.entities[second.attacker_id].alive

\* ------------------------------------------------------------------------
\* C24: every SHOOT that passes validation takes exactly one missile from
\* its shooter, whether it hits or misses and even if its target was marked
\* for death by an earlier shot of the turn; a shooter with 1 missile has 0
\* after firing.
\* ------------------------------------------------------------------------
ShotConsumesMissile ==
    [][(~IsNone(world) /\ last'.op = "step" /\ last'.raised = "None") =>
          LET Fired(mid) ==
                  \A i \in AllIds(world) :
                      (/\ world.entities[i].alive
                       /\ last'.actions[i].type = "SHOOT"
                       /\ ValidateActionInWorld(mid, i, last'.actions[i]).valid)
                          => /\ world'.entities[i].missiles
                                   = world.entities[i].missiles - 1
                             /\ world.entities[i].missiles = 1
                                   => world'.entities[i].missiles = 0
                             /\ \E k \in DOMAIN ShotResults(last') :
                                   /\ ShotResults(last')[k].attacker_id = i
                                   /\ ShotResults(last')[k].success
                                   /\ ShotResults(last')[k].hit \in {"True", "False"}
          IN Fired(AfterMovement(world, last'.actions))]_vars

\* The end of a step in which two shooters fired at one target: the first
\* hit it, the second fired at the marked target, and both spent their only
\* missile
ShotConsumesMissileWitness ==
    /\ StepReturned
    /\ \E k, l \in DOMAIN ShotResults(last) :
          LET first == ShotResults(last)[k]
              second == ShotResults(last)[l]
          IN /\ k < l
             /\ first.hit = "True" /\ second.success
             /\ first.target_id = second.target_id
             /\ scenario.entities[second.attacker_id].missiles = 1
             /\ world.turn = 1
             /\ world.entities[first.attacker_id].missiles = 0
             /\ world.entities[second.attacker_id].missiles = 0

\* ------------------------------------------------------------------------
\* C25: a SAM that fires a validated shot has its cooldown started; in every
\* step() the cooldown of an alive SAM is decremented exactly once, by the
\* pre-turn housekeeping and never below 0; while the cooldown left after
\* that is above 0 every SHOOT of the SAM fails validation and consumes no
\* missile.
\* ------------------------------------------------------------------------
SamCooldown ==
    [][(~IsNone(world) /\ last'.op = "step" /\ last'.raised = "None") =>
          \A i \in AllIds(world) :
              (world.entities[i].kind = "sam" /\ world.entities[i].alive) =>
                  LET before == world.entities[i]
                      after == world'.entities[i]
                      ticked == IF before.cooldown > 0 THEN before.cooldown - 1 ELSE 0
                      fired == \E k \in DOMAIN ShotResults(last') :
                                  /\ ShotResults(last')[k].attacker_id = i
                                  /\ ShotResults(last')[k].success
                  IN /\ after.cooldown >= 0
                     /\ fired => after.cooldown = before.cooldown_steps
                     /\ ~fired => after.cooldown = ticked
                     /\ (ticked > 0 /\ last'.actions[i].type = "SHOOT") =>
                           /\ ~fired
                           /\ after.missiles = before.missiles
                           /\ \E k \in DOMAIN ShotResults(last') :
                                 /\ ShotResults(last')[k].attacker_id = i
                                 /\ ~ShotResults(last')[k].success]_vars

\* The end of the step after a SAM fired: its SHOOT at a visible target in
\* range was refused for the cooldown, which the step's housekeeping took
\* from 2 to 1, and its missile count is what the first shot left
SamCooldownWitness ==
    /\ StepReturned
    /\ \E k \in DOMAIN ShotResults(last) :
          LET r == ShotResults(last)[k]
          IN /\ r.log = "SAM_COOLDOWN"
             /\ world.entities[r.attacker_id].alive
             /\ world.entities[r.attacker_id].cooldown_steps = 2
             /\ world.entities[r.attacker_id].cooldown = 1
             /\ world.entities[r.attacker_id].missiles
                   = scenario.entities[r.attacker_id].missiles - 1

EpisodeTerminates ==
    ~IsNone(world) =>
        LET bound == (TotalMissiles(scenario.entities) + 1) * scenario.max_stalemate_turns
        IN /\ world.turn <= bound
           /\ world.turn = bound => world.game_over
           /\ (last.op = "step" /\ world.game_over) => last.done

\* The longest episode of the standoff scenario: the only missile is fired
\* in the second turn and the fourth step, the (1 + 1) * 2-th, is the first
\* to return isDone=True, for the stalemate
EpisodeTerminatesWitness ==
    /\ StepReturned
    /\ scenario.name = "standoff"
    /\ world.turn = (TotalMissiles(scenario.entities) + 1) * scenario.max_stalemate_turns
    /\ last.done
    /\ last.info.victory.reason = "STALEMATE"
    /\ world.entities[1].missiles = 0

\* ------------------------------------------------------------------------
\* C29: after all shots of a turn are resolved the pending kills are applied
\* in the order in which they were first marked: killed_entity_ids holds
\* each entity killed in the turn exactly once, also one hit by several
\* shooters, in first-hit order, with one death log per id; each listed
\* entity has alive=false and no kill is pending any more.
\* ------------------------------------------------------------------------
KillsInFirstHitOrder ==
    [][(~IsNone(world) /\ last'.op = "step" /\ last'.raised = "None") =>
          LET results == ShotResults(last')
              killed == last'.info.combat.killed_entity_ids
              logs == last'.info.combat.death_logs
              HitsOn(t) == {h \in DOMAIN results :
                               results[h].hit = "True" /\ results[h].target_id = t}
          IN /\ \A k, l \in DOMAIN killed : killed[k] = killed[l] => k = l
             /\ {killed[k] : k \in DOMAIN killed}
                   = {t \in AllIds(world) : HitsOn(t) # {}}
             /\ \A k, l \in DOMAIN killed :
                   k < l => \E h \in HitsOn(killed[k]) :
                               \A g \in HitsOn(killed[l]) : h < g
             /\ DOMAIN logs = DOMAIN killed
             /\ \A k \in DOMAIN killed :
                   /\ logs[k] = DeathLog(killed[k])
                   /\ world.entities[killed[k]].alive
                   /\ ~world'.entities[killed[k]].alive
             /\ world'.pending_kills = {}]_vars

\* The end of a step in which two shooters hit the same target: it is
\* listed once, with one death log, and is dead
KillsInFirstHitOrderWitness ==
    /\ StepReturned
    /\ \E k, l \in DOMAIN ShotResults(last) :
          /\ k < l
          /\ ShotResults(last)[k].hit = "True" /\ ShotResults(last)[l].hit = "True"
          /\ ShotResults(last)[k].target_id = ShotResults(last)[l].target_id
          /\ last.info.combat.killed_entity_ids = <<ShotResults(last)[k].target_id>>
          /\ Len(last.info.combat.death_logs) = 1
          /\ ~world.entities[ShotResults(last)[k].target_id].alive
    /\ world.pending_kills = {}

\* ------------------------------------------------------------------------
\* C30: in every step() each stall counter is either reset to 0 or
\* incremented by exactly 1: turns_without_shooting becomes 0 iff at least
\* one SHOOT passed validation and was fired in the turn, hit or miss, and
\* turns_without_movement becomes 0 iff at least one MOVE changed a position
\* in the turn; failed shots, failed moves, WAIT and TOGGLE reset neither.
\* ------------------------------------------------------------------------
StallCounters ==
    [][(~IsNone(world) /\ last'.op = "step" /\ last'.raised = "None") =>
          LET fired == \E k \in DOMAIN ShotResults(last') :
                          /\ ShotResults(last')[k].success
                          /\ ShotResults(last')[k].hit \in {"True", "False"}
              moved == \E i \in AllIds(world) :
                          /\ last'.actions[i].type = "MOVE"
                          /\ world'.entities[i].pos # world.entities[i].pos
          IN /\ world'.turns_without_shooting
                   = (IF fired THEN 0 ELSE world.turns_without_shooting + 1)
             /\ world'.turns_without_movement
                   = (IF moved THEN 0 ELSE world.turns_without_movement + 1)
             /\ world'.turns_without_shooting = 0 <=> fired
             /\ world'.turns_without_movement = 0 <=> moved]_vars

\* The end of a second step in a row with nothing but a refused shot and a
\* refused move: both counters are at 2
StallCountersWitness ==
    /\ StepReturned
    /\ world.turn = 2
    /\ world.turns_without_shooting = 2
    /\ world.turns_without_movement = 2
    /\ \E k \in DOMAIN ShotResults(last) : ~ShotResults(last)[k].success
    /\ \E m \in DOMAIN last.info.movement :
          /\ last.info.movement[m].action = "MOVE"
          /\ ~last.info.movement[m].success

\* ------------------------------------------------------------------------
\* C31: after each sensor refresh a team's view holds one observation per
\* observed entity; entity e is in it iff e is alive and either belongs to
\* the team or is no SAM that is off and lies within the active radar range
\* (> 0) of an alive entity of the team; the observation's seen_by is the
\* set of the team's entities that observe e, plus e itself when e is the
\* team's, and its position is e's current position.
\* ------------------------------------------------------------------------
ViewsAsSensed ==
    (~IsNone(world) /\ last.op \in {"reset", "step"} /\ last.raised = "None") =>
        \A team \in TeamSet :
            LET view == world.team_views[team]
                Range(o) == IF world.entities[o].kind = "sam" /\ ~world.entities[o].on
                            THEN 0 ELSE world.entities[o].radar_range
                Sees(o, e) ==
                    /\ o # e
                    /\ world.entities[o].alive /\ world.entities[o].team = team
                    /\ Range(o) > 0
                    /\ ~(world.entities[e].kind = "sam" /\ ~world.entities[e].on)
                    /\ Dist2(world.entities[o].pos, world.entities[e].pos)
                          <= Range(o) * Range(o)
                Own(e) == world.entities[e].team = team
            IN /\ DOMAIN view.observations
                     = {e \in AllIds(world) :
                           /\ world.entities[e].alive
                           /\ Own(e) \/ \E o \in AllIds(world) : Sees(o, e)}
               /\ \A e \in DOMAIN view.observations :
                     /\ view.observations[e].entity_id = e
                     /\ view.observations[e].position = world.entities[e].pos
                     /\ view.observations[e].seen_by
                           = {o \in AllIds(world) : Sees(o, e)}
                             \cup (IF Own(e) THEN {e} ELSE {})

\* The end of a step after which a team's view holds one observation of an
\* enemy that two of the team's entities observe
ViewsAsSensedWitness ==
    /\ StepReturned
    /\ \E team \in TeamSet :
          \E e \in DOMAIN world.team_views[team].observations :
              /\ world.entities[e].team # team
              /\ Cardinality(world.team_views[team].observations[e].seen_by) = 2

OneResultPerShoot ==
    [][(~IsNone(world) /\ last'.op = "step") =>
          /\ last'.raised = "None"
          /\ \A i \in AllIds(world) :
                last'.actions[i].type = "SHOOT" =>
                    Cardinality({k \in DOMAIN ShotResults(last') :
                                    ShotResults(last')[k].attacker_id = i}) = 1
          /\ Len(ShotResults(last'))
                = Cardinality({i \in AllIds(world) : last'.actions[i].type = "SHOOT"})]_vars

\* ------------------------------------------------------------------------
\* C34: get_allowed_actions returns the empty list for a dead aircraft; for
\* an alive one it returns exactly WAIT, MOVE(dir) for each of the four
\* directions whose destination is in bounds, occupied or not, and, only
\* with missiles > 0, SHOOT(t) for each t of its team's visible enemies that
\* is alive and within Euclidean distance <= missile_max_range.
\* ------------------------------------------------------------------------
AllowedActionsOfAircraft ==
    ~IsNone(world) =>
        \A i \in {a \in AllIds(world) : world.entities[a].kind = "aircraft"} :
            LET e == world.entities[i]
                Listed(allowed) ==
                    IF ~e.alive THEN allowed = <<>>
                    ELSE /\ Cardinality({allowed[k] : k \in DOMAIN allowed})
                               = Len(allowed)
                         /\ \A k \in DOMAIN allowed :
                               allowed[k].wf
                                  /\ allowed[k].type \in {"WAIT", "MOVE", "SHOOT"}
                         /\ \E k \in DOMAIN allowed : allowed[k].type = "WAIT"
                         /\ Cardinality({k \in DOMAIN allowed :
                                            allowed[k].type = "WAIT"}) = 1
                         /\ {allowed[k].dir : k \in {n \in DOMAIN allowed :
                                                      allowed[n].type = "MOVE"}}
                               = {d \in {"UP", "DOWN", "LEFT", "RIGHT"} :
                                     /\ 0 <= e.pos[1] + Delta(d)[1]
                                     /\ e.pos[1] + Delta(d)[1] < world.grid.width
                                     /\ 0 <= e.pos[2] + Delta(d)[2]
                                     /\ e.pos[2] + Delta(d)[2] < world.grid.height}
                         /\ {allowed[k].target_id : k \in {n \in DOMAIN allowed :
                                                            allowed[n].type = "SHOOT"}}
                               = {t \in AllIds(world) :
                                     /\ e.missiles > 0
                                     /\ t \in DOMAIN world.team_views[e.team].observations
                                     /\ world.entities[t].team # e.team
                                     /\ world.entities[t].alive
                                     /\ Dist2(e.pos, world.entities[t].pos)
                                           <= e.missile_max_range * e.missile_max_range}
            IN Listed(GetAllowedActions(world, i))

\* A state in which an alive aircraft is offered a shot and a move into an
\* occupied cell, but not all four moves
AllowedActionsOfAircraftWitness ==
    /\ ~IsNone(world)
    /\ \E i \in AllIds(world) :
          LET e == world.entities[i]
              allowed == GetAllowedActions(world, i)
          IN /\ e.kind = "aircraft" /\ e.alive
             /\ \E k \in DOMAIN allowed : allowed[k].type = "SHOOT"
             /\ \E k \in DOMAIN allowed :
                   /\ allowed[k].type = "MOVE"
                   /\ Occupied(world, Destination(e, allowed[k]), i)
             /\ Cardinality({k \in DOMAIN allowed : allowed[k].type = "MOVE"}) < 4

\* ------------------------------------------------------------------------
\* C35: a MOVE whose destination is out of bounds or occupied fails without
\* raising: the mover keeps its position and its movement result has
\* success=false, old position = new position and a failure reason; every
\* entity that is in bounds when a step begins is in bounds when it ends.
\* A destination counts as occupied when an alive entity is in it that
\* stays there for the turn.
\* ------------------------------------------------------------------------
BlockedMoveFails ==
    [][(~IsNone(world) /\ last'.op = "step") =>
          /\ (\A i \in AllIds(world) : last'.actions[i].type # "SHOOT")
                => last'.raised = "None"
          /\ (\A i \in AllIds(world) : InBounds(world.grid, world.entities[i].pos))
                => \A i \in AllIds(world) :
                       InBounds(world'.grid, world'.entities[i].pos)
          /\ last'.raised = "None" =>
                LET results == last'.info.movement
                    Dest(i) ==
                        <<world.entities[i].pos[1] + Delta(last'.actions[i].dir)[1],
                          world.entities[i].pos[2] + Delta(last'.actions[i].dir)[2]>>
                    Outside(i) ==
                        \/ Dest(i)[1] < 0 \/ Dest(i)[1] >= world.grid.width
                        \/ Dest(i)[2] < 0 \/ Dest(i)[2] >= world.grid.height
                    Held(i) ==
                        \E j \in AllIds(world) \ {i} :
                            /\ world.entities[j].alive
                            /\ world.entities[j].pos = Dest(i)
                            /\ world'.entities[j].pos = Dest(i)
                IN /\ \A i \in AllIds(world) :
                         (/\ world.entities[i].alive /\ world.entities[i].can_move
                          /\ last'.actions[i].type = "MOVE" /\ last'.actions[i].wf
                          /\ Outside(i) \/ Held(i)) =>
                             /\ world'.entities[i].pos = world.entities[i].pos
                             /\ \E k \in DOMAIN results :
                                   /\ results[k].entity_id = i
                                   /\ results[k].action = "MOVE"
                                   /\ ~results[k].success
                                   /\ results[k].failure_reason
                                         = (IF Outside(i) THEN "OUT_OF_BOUNDS"
                                            ELSE "OCCUPIED")
                   /\ \A k \in DOMAIN results :
                         (results[k].action = "MOVE" /\ ~results[k].success) =>
                             /\ results[k].old_pos = results[k].new_pos
                             /\ results[k].failure_reason # "None"
                             /\ world.entities[results[k].entity_id].pos
                                   = results[k].old_pos
                             /\ world'.entities[results[k].entity_id].pos
                                   = results[k].old_pos]_vars

\* The end of a step in which one MOVE failed for leaving the grid and
\* another for an occupied destination
BlockedMoveFailsWitness ==
    /\ StepReturned
    /\ \E k, l \in DOMAIN last.info.movement :
          /\ last.info.movement[k].action = "MOVE"
          /\ last.info.movement[k].failure_reason = "OUT_OF_BOUNDS"
          /\ last.info.movement[l].action = "MOVE"
          /\ last.info.movement[l].failure_reason = "OCCUPIED"
          /\ ~last.info.movement[k].success /\ ~last.info.movement[l].success

\* ------------------------------------------------------------------------
\* C36: capability flags are enforced in every turn: a MOVE by an entity
\* without can_move (a SAM) fails, so a SAM's position is constant for the
\* whole episode; a SHOOT by an entity without can_shoot (an AWACS, a Decoy)
\* fails, so no AWACS or Decoy is ever recorded as having fired in a team
\* view.
\* ------------------------------------------------------------------------
CapabilitiesEnforced ==
    [][(~IsNone(world) /\ last'.op = "step") =>
          /\ \A i \in AllIds(world) :
                /\ world.entities[i].kind = "sam" => ~world.entities[i].can_move
                /\ world.entities[i].kind \in {"awacs", "decoy"}
                      => ~world.entities[i].can_shoot
                /\ ~world.entities[i].can_move
                      => world'.entities[i].pos = world.entities[i].pos
          /\ \A team \in TeamSet :
                \A a \in world'.team_views[team].enemy_fired :
                    world.entities[a].can_shoot
          /\ last'.raised = "None" =>
                /\ \A i \in AllIds(world) :
                      (/\ world.entities[i].alive /\ ~world.entities[i].can_move
                       /\ last'.actions[i].type = "MOVE") =>
                          \E k \in DOMAIN last'.info.movement :
                              /\ last'.info.movement[k].entity_id = i
                              /\ ~last'.info.movement[k].success
                              /\ last'.info.movement[k].failure_reason = "NO_CAPABILITY"
                /\ \A k \in DOMAIN ShotResults(last') :
                      ~world.entities[ShotResults(last')[k].attacker_id].can_shoot =>
                          /\ ~ShotResults(last')[k].success
                          /\ ShotResults(last')[k].hit = "None"
                          /\ ShotResults(last')[k].log = "NO_CAPABILITY"]_vars

\* The end of a step in which a SAM was refused a MOVE and an AWACS or a
\* Decoy was refused a SHOOT
CapabilitiesEnforcedWitness ==
    /\ StepReturned
    /\ \E k \in DOMAIN last.info.movement :
          /\ world.entities[last.info.movement[k].entity_id].kind = "sam"
          /\ last.info.movement[k].action = "MOVE"
          /\ last.info.movement[k].failure_reason = "NO_CAPABILITY"
    /\ \E k \in DOMAIN ShotResults(last) :
          /\ world.entities[ShotResults(last)[k].attacker_id].kind \in {"awacs", "decoy"}
          /\ ShotResults(last)[k].log = "NO_CAPABILITY"

ResetCopies ==
    [][/\ heap'.scenario = heap.scenario
       /\ \A k \in DOMAIN heap.scenario.entities :
             heap'.objects[heap.scenario.entities[k]]
                = heap.objects[heap.scenario.entities[k]]
       /\ heap'.W = heap.W
       /\ heap'.worlds[heap.W] = heap.worlds[heap.W]
       /\ Deref(heap', heap.W) = Deref(heap, heap.W)
       /\ (heap.envs[1] # 0 /\ heap.envs[2] # 0)
             => (world' = world \/ twin'.world = twin.world)]_vars

\* Both environments have been stepped once, the first one reset with the
\* caller's world W: an entity has moved in the first, a missile has been
\* fired in the second, and the caller's entities and W are as they were
ResetCopiesWitness ==
    /\ ~IsNone(heap)
    /\ heap.envs[1] # 0 /\ heap.envs[2] # 0
    /\ Len(heap.worlds) = 3
    /\ world.turn = 1 /\ twin.world.turn = 1
    /\ heap.worlds[heap.W].turn = 0
    /\ \E i \in AllIds(world) :
          world.entities[i].pos # heap.objects[heap.scenario.entities[i]].entity.pos
    /\ \E i \in AllIds(world) :
          /\ twin.world.entities[i].missiles
                < heap.objects[heap.scenario.entities[i]].entity.missiles
          /\ twin.world.entities[i].missiles < Deref(heap, heap.W).entities[i].missiles

\* ------------------------------------------------------------------------
\* C39: the termination protocol of GameRunner: a step() before the game
\* has ended steps the environment exactly once and returns a frame that
\* holds the world from before that step; after the environment has
\* reported done, the next step() returns one terminal frame of the final
\* world without stepping the environment, and every step() after that
\* raises RuntimeError; run() returns once a frame is marked done.
\* ------------------------------------------------------------------------
RunnerProtocol ==
    [][/\ (last = Taken /\ last'.op = "GameRunner.step") =>
             IF ~runner.done
             THEN /\ last'.raised = "None"
                  /\ last'.stepped = 1 /\ world'.turn = world.turn + 1
                  /\ last'.frame.world = world
                  /\ runner'.done = world'.game_over
             ELSE IF ~IsNone(runner.final_world)
             THEN /\ last'.raised = "None"
                  /\ last'.stepped = 0 /\ world' = world
                  /\ last'.frame.world = world
                  /\ IsNone(runner'.final_world)
             ELSE /\ last'.raised = "RuntimeError"
                  /\ last'.stepped = 0 /\ world' = world
       /\ last'.op = "GameRunner.run" => last'.raised = "None"]_vars

====
